---- MODULE Spec2Model ----
(***************************************************************************)
(* Model of tools/run-benchmarks.py: the benchmark orchestrator.           *)
(*                                                                         *)
(* The orchestrator is one Python thread.  Its position is the call stack  *)
(* `stack`, a sequence of labels, one per active function call; the last   *)
(* element is the running function.  A label that names a call site means  *)
(* "the callee has returned" when it is on top.  An exception in flight is *)
(* `exc`; while it is set only the Unwind actions run, one frame per step, *)
(* executing the except/finally clauses the source has at that frame.      *)
(* SIGINT/SIGTERM run main.cleanup on top of whatever the thread was doing.*)
(*                                                                         *)
(* Values that Python code may hold as None are encoded as sequences:      *)
(* None is <<>> and the number x is <<x>>.  Dicts are records; a key that  *)
(* is absent from a dict is absent from the record's DOMAIN.               *)
(***************************************************************************)
EXTENDS Integers, Sequences, FiniteSets, TLC

\* ------------------------------------------------------------------ bounds
MaxVariants == 2
MaxRuns == 1
MaxPolls == 2
MaxSignals == 2
MaxFaults == 1
MaxRecords == 3

\* ------------------------------------------------------- program constants
StrongTotal == 1000
WeakPerClient == 100
WarmupMessages == 10
SettleDelay == 2
PollInterval == 1
BuildTime == 1
AttemptsJvmLocal == 60
AttemptsJvmGramine == 200
AttemptsNative == 90

None == <<>>
Some(x) == <<x>>
Truthy(v) == v # None /\ v[1] # 0

Get(d, k, default) == IF k \in DOMAIN d THEN d[k] ELSE default

\* {**d1, **d2}: keys of d2 override keys of d1
Merge(d1, d2) ==
  [k \in (DOMAIN d1) \cup (DOMAIN d2) |-> IF k \in DOMAIN d2 THEN d2[k] ELSE d1[k]]

Min(a, b) == IF a < b THEN a ELSE b

Last(s) == s[Len(s)]

IsPrefix(s, t) == Len(s) <= Len(t) /\ SubSeq(t, 1, Len(s)) = s

\* ------------------------------------------------------------ configuration
Variants == {"jvm-local", "jvm-gramine", "native-dynamic", "native-static"}

client_counts == <<1, 2, 4, 8, 16>>

Port(v) ==
  CASE v = "jvm-local" -> 9443
    [] v = "jvm-gramine" -> 9444
    [] v = "native-dynamic" -> 9445
    [] v = "native-static" -> 9446

\* the three Gramine variants are launched through "sudo -n" (use_sudo is True)
UsesSudo(v) == v \in {"jvm-gramine", "native-dynamic", "native-static"}

\* max_attempts passed to wait_for_server by each start operation; the model
\* polls at most MaxPolls times
max_attempts(v) ==
  Min(MaxPolls, CASE v = "jvm-local" -> AttemptsJvmLocal
                  [] v = "jvm-gramine" -> AttemptsJvmGramine
                  [] OTHER -> AttemptsNative)

\* whether the start operation runs its build step: jvm-gramine always does,
\* the others only when a file (keystore, manifest, binary) is missing
BuildNeeded(v) == IF v = "jvm-gramine" THEN {TRUE} ELSE BOOLEAN

\* ------------------------------------------------------------ client output
\* What the client printed: for each label the extractor looks for, the number
\* printed on that line, or None when there is no such line.
NoOutput ==
  [tput |-> None, loose |-> None, avg |-> None, min |-> None, max |-> None,
   p50 |-> None, p95 |-> None, p99 |-> None, ttime |-> None, tmsgs |-> None,
   srate |-> None]

OutFull(total) ==
  [tput |-> Some(200), loose |-> None, avg |-> Some(5), min |-> Some(1),
   max |-> Some(9), p50 |-> Some(4), p95 |-> Some(8), p99 |-> Some(9),
   ttime |-> Some(2000), tmsgs |-> Some(total), srate |-> Some(100)]

OutNoLatency(total) == [NoOutput EXCEPT !.tput = Some(200), !.tmsgs = Some(total)]

\* outcome of subprocess.run(cmd, timeout=300)
Exited(rc, out) == [kind |-> "exit", rc |-> rc, out |-> out]
TimedOut == [kind |-> "timeout"]
Raised == [kind |-> "error"]

NominalClient(total) == Exited(0, OutFull(total))

\* what a client invocation can do.  Under "any" the client may exit with
\* either status, print all, some or none of its lines, hang or fail to start;
\* under "latency" its only deviation is a missing latency line.
ClientResults(env, total) ==
  IF env = "any"
  THEN {NominalClient(total), Exited(0, OutNoLatency(total)), Exited(0, NoOutput),
        Exited(1, OutFull(total)), TimedOut, Raised}
  ELSE {NominalClient(total), Exited(0, OutNoLatency(total))}

\* ---------------------------------------------------------- MetricsExtractor
extract_from_output(out) ==
  LET throughput == IF out.tput # None THEN out.tput ELSE out.loose
      derived == IF /\ throughput = None
                    /\ Truthy(out.ttime)
                    /\ Truthy(out.tmsgs)
                    /\ out.ttime[1] > 0
                 THEN Some((out.tmsgs[1] * 1000) \div out.ttime[1])
                 ELSE throughput
  IN [throughput |-> derived, avg_latency |-> out.avg, min_latency |-> out.min,
      max_latency |-> out.max, p50_latency |-> out.p50, p95_latency |-> out.p95,
      p99_latency |-> out.p99, total_time |-> out.ttime,
      total_messages |-> out.tmsgs, success_rate |-> out.srate]

\* --------------------------------------------------------------- RunExecutor
\* which outcomes of the client invocation run_single_test turns into a record
RunCatchesOnlyTimeout(kind) == kind = "timeout"
RunCatches(kind) == kind \in {"timeout", "error"}

ErrorText(kind) == IF kind = "timeout" THEN "timeout" ELSE "exception text"

run_single_test(variant, num_clients, messages_per_client, run_number, cr) ==
  LET base == [variant |-> variant, num_clients |-> num_clients,
               messages_per_client |-> messages_per_client,
               total_messages |-> Some(num_clients * messages_per_client),
               run_number |-> run_number]
  IN IF cr.kind = "exit"
     THEN Merge(Merge(base, [success |-> (cr.rc = 0), output |-> cr.out]),
                extract_from_output(cr.out))
     ELSE Merge(base, [success |-> FALSE, error |-> ErrorText(cr.kind)])

\* the progress line of the sweeps formats result.get('avg_latency', 0) with
\* :.2f when the run succeeded and has a throughput; None cannot be formatted
ProgressLineRaises(result) ==
  /\ result.success
  /\ Truthy(Get(result, "throughput", None))
  /\ Get(result, "avg_latency", Some(0)) = None

messages_per_clientRoundedUp(kind, num_clients) ==
  IF kind = "strong"
  THEN (StrongTotal + num_clients - 1) \div num_clients
  ELSE WeakPerClient

messages_per_client(kind, num_clients) ==
  IF kind = "strong" THEN StrongTotal \div num_clients ELSE WeakPerClient

\* -------------------------------------------------------------------- state
VARIABLES
  variants_to_run,  \* main: the selected variants, in order
  num_runs,         \* args.runs
  stack,            \* call stack of the orchestrator thread
  exc,              \* exception in flight: "none", "Exception", "SystemExit"
  pending,          \* exception held by run_variant_benchmarks' finally block
  halted,           \* "no", or how the orchestrator process ended
  vi,               \* main: index of the current variant
  all_results,      \* main: all_results
  server_process,   \* config.server_process (0 is None, else a process id)
  current_variant,  \* config.current_variant
  procs,            \* the server processes launched so far
  process,          \* start_*: the local variable `process` (0: not launched)
  attempt,          \* wait_for_server: loop variable
  waitRet,          \* wait_for_server: returned success
  startRet,         \* start_*: returned value
  elapsed,          \* seconds since run_variant_benchmarks took startup_start
  sweep,            \* which sweep is running: "strong" or "weak"
  ci,               \* sweep: index into client_counts
  run,              \* sweep: run number
  results,          \* sweep: the local list `results`
  strong_results,   \* run_variant_benchmarks: strong_results
  retval,           \* run_variant_benchmarks: the returned dict
  signalsLeft,      \* signals the environment may still deliver
  faults,           \* deviations of the environment from the nominal run so far
  clientEnv,        \* the client behaviours of this run: "any" or "latency"
  analyzer,         \* the ScalingAnalyzer call under way: arguments, return value
  calls,            \* history: number of client invocations made
  client,           \* history: outcome of the latest client invocation
  cmd,              \* history: command line of the latest client invocation
  stopTarget,       \* history: process the latest stop_server call found
  timedOut,         \* history: variant indices whose readiness polling timed out
  attempted,        \* history: variant indices run_variant_benchmarks was called for
  args              \* main: the command line (--all, --variants); None outside main

vars ==
  <<variants_to_run, num_runs, stack, exc, pending, halted, vi, all_results,
    server_process, current_variant, procs, process, attempt, waitRet, startRet,
    elapsed, sweep, ci, run, results, strong_results, retval, signalsLeft,
    faults, clientEnv, analyzer, calls, client, cmd, stopTarget, timedOut, attempted,
    args>>

config == <<variants_to_run, num_runs, clientEnv, args>>
history == <<calls, client, cmd, stopTarget, timedOut, attempted>>
startLocals == <<process, attempt, waitRet, startRet, elapsed>>
sweepLocals == <<sweep, ci, run, results, strong_results, retval>>
serverState == <<server_process, current_variant, procs>>

Top == stack[Len(stack)]
Pop == SubSeq(stack, 1, Len(stack) - 1)
Goto(l) == [stack EXCEPT ![Len(stack)] = l]
Call(ret, callee) == Append(Goto(ret), callee)

Running == halted = "no" /\ exc = "none" /\ stack # <<>>
At(l) == Running /\ Top = l
Unwinding == halted = "no" /\ exc # "none" /\ stack # <<>>

variant == variants_to_run[vi]

MainLabels == {"m_parse", "m_sudo", "m_sudo_prompt", "m_loop", "m_call", "m_report"}
RvbLabels == {"rvb_begin", "rvb_start", "rvb_warmup", "rvb_strong", "rvb_weak",
              "rvb_fin_ret", "rvb_fin_exc"}
StartLabels == {"s_check", "s_build", "s_popen", "s_assign", "s_wait", "s_stop"}
StopLabels == {"st_enter", "st_wait", "st_kill", "st_wait2", "st_finally", "st_ret"}
CleanupLabels == {"cl_enter", "cl_stop"}

\* the list --all selects
AllVariants == <<"jvm-local", "jvm-gramine", "native-dynamic", "native-static">>

\* the selections explored: 1..MaxVariants consecutive variants of that list
Selections ==
  {SubSeq(AllVariants, w[1], w[2]) :
     w \in {x \in (1..Len(AllVariants)) \X (1..Len(AllVariants)) :
              x[1] <= x[2] /\ x[2] - x[1] < MaxVariants}}

\* the environment deviates from the nominal run (port free, files built,
\* server up at the first poll and gone within the grace period, client
\* printing every line) at most MaxFaults times
Deviation(b) ==
  IF b THEN faults < MaxFaults /\ faults' = faults + 1 ELSE faults' = faults

\* no ScalingAnalyzer method is being called
NoCall == [fn |-> "none"]

\* a command line: whether --all is given, and the names after --variants
\* (None without that option)
CommandLine(all, names) == Some([all |-> all, variants |-> names])

\* the program at the top of main's outer try block, handlers installed
Start(signals) ==
  /\ variants_to_run \in Selections
  /\ args = CommandLine(FALSE, Some(variants_to_run))
  /\ num_runs \in 1..MaxRuns
  /\ clientEnv = "latency"
  /\ analyzer = NoCall
  /\ stack = <<"m_sudo">>
  /\ exc = "none"
  /\ pending = "none"
  /\ halted = "no"
  /\ vi = 1
  /\ all_results = <<>>
  /\ server_process = 0
  /\ current_variant = None
  /\ procs = <<>>
  /\ process = 0
  /\ attempt = 1
  /\ waitRet = FALSE
  /\ startRet = FALSE
  /\ elapsed = 0
  /\ sweep = "strong"
  /\ ci = 1
  /\ run = 1
  /\ results = <<>>
  /\ strong_results = <<>>
  /\ retval = [variant |-> "none"]
  /\ signalsLeft = signals
  /\ faults = 0
  /\ calls = 0
  /\ cmd = None
  /\ client = [kind |-> "none"]
  /\ stopTarget = 0
  /\ timedOut = {}
  /\ attempted = {}

\* the suite with up to MaxSignals interrupts
Init == Start(MaxSignals)

\* the suite when no interrupt arrives
InitSuite == Start(0)

\* run_variant_benchmarks of a single selected variant at the entry of its
\* try block: the server was started on a free port, answered the first poll
\* and is recorded in config.server_process
InitSweep ==
  /\ variants_to_run \in {<<v>> : v \in Variants}
  /\ args = CommandLine(FALSE, Some(variants_to_run))
  /\ num_runs \in 1..MaxRuns
  /\ clientEnv = "any"
  /\ analyzer = NoCall
  /\ stack = <<"m_call", "rvb_warmup">>
  /\ exc = "none"
  /\ pending = "none"
  /\ halted = "no"
  /\ vi = 1
  /\ all_results = <<>>
  /\ server_process = 1
  /\ current_variant = Some(variants_to_run[1])
  /\ procs = <<[variant |-> variants_to_run[1], alive |-> TRUE, ready |-> TRUE,
                stops |-> 0]>>
  /\ process = 1
  /\ attempt = 1
  /\ waitRet = TRUE
  /\ startRet = TRUE
  /\ elapsed = SettleDelay + (IF variants_to_run[1] = "jvm-gramine" THEN BuildTime ELSE 0)
  /\ sweep = "strong"
  /\ ci = 1
  /\ run = 1
  /\ results = <<>>
  /\ strong_results = <<>>
  /\ retval = [variant |-> variants_to_run[1], startup_time |-> Some(elapsed)]
  /\ signalsLeft = 0
  /\ faults = 0
  /\ calls = 0
  /\ cmd = None
  /\ client = [kind |-> "none"]
  /\ stopTarget = 0
  /\ timedOut = {}
  /\ attempted = {1}

\* ------------------------------------------------------------------- main
\* the for loop of main over variants_to_run
NextVariantStopOnError(i, failed) == IF failed THEN Len(variants_to_run) + 1 ELSE i + 1
NextVariant(i, failed) == i + 1

\* the inner try of main: "except KeyboardInterrupt: raise / except Exception"
MainCatchesNothing(e) == FALSE
MainCatchesAnything(e) == TRUE
MainCatches(e) == e = "Exception"

\* the names argparse accepts after --variants
choicesAnyName == Variants \cup {"jvm-remote"}
choices == {"jvm-local", "jvm-gramine", "native-dynamic", "native-static"}

\* parser.parse_args() and the choice of variants_to_run: a name outside
\* choices ends the program with status 2, a command line with neither --all
\* nor --variants with sys.exit(1); otherwise the configuration and the
\* managers are created and the signal handlers installed
MainParse ==
  /\ At("m_parse")
  /\ IF args[1].variants # None
        /\ \E i \in DOMAIN args[1].variants[1] : args[1].variants[1][i] \notin choices
     THEN halted' = "exit2" /\ stack' = <<>> /\ UNCHANGED variants_to_run
     ELSE IF args[1].all
     THEN halted' = halted /\ stack' = Goto("m_sudo") /\ variants_to_run' = AllVariants
     ELSE IF args[1].variants # None /\ args[1].variants[1] # <<>>
     THEN /\ halted' = halted
          /\ stack' = Goto("m_sudo")
          /\ variants_to_run' = args[1].variants[1]
     ELSE halted' = "exit1" /\ stack' = <<>> /\ UNCHANGED variants_to_run
  /\ UNCHANGED <<num_runs, clientEnv, args, analyzer, exc, pending, vi, all_results,
                 serverState, startLocals, sweepLocals, signalsLeft, faults, history>>

\* needs_sudo of main: a Gramine variant is selected
needs_sudo == \E i \in DOMAIN variants_to_run : UsesSudo(variants_to_run[i])

\* ensure_sudo_access up to the password prompt: "sudo -n true" succeeds, or
\* the function prints "Please enter your sudo password:" and runs "sudo -v",
\* which reads the password from the terminal
MainSudo ==
  /\ At("m_sudo")
  /\ \E usable \in BOOLEAN :
       stack' = IF needs_sudo /\ ~usable THEN Goto("m_sudo_prompt") ELSE Goto("m_loop")
  /\ UNCHANGED <<config, analyzer, exc, pending, halted, vi, all_results, serverState,
                 startLocals, sweepLocals, signalsLeft, faults, history>>

\* "sudo -v" returns once a password was entered or sudo gave up: status 0
\* lets main go on (a daemon thread then refreshes the credential every 60 s),
\* any other status ends the program with sys.exit(1)
MainSudoPrompt ==
  /\ At("m_sudo_prompt")
  /\ \E granted \in BOOLEAN :
       IF granted
       THEN halted' = halted /\ stack' = Goto("m_loop")
       ELSE halted' = "exit1" /\ stack' = <<>>
  /\ UNCHANGED <<config, analyzer, exc, pending, vi, all_results, serverState, startLocals,
                 sweepLocals, signalsLeft, faults, history>>

MainLoop ==
  /\ At("m_loop")
  /\ stack' = IF vi <= Len(variants_to_run)
              THEN Call("m_call", "rvb_begin")
              ELSE Goto("m_report")
  /\ UNCHANGED <<config, analyzer, exc, pending, halted, vi, all_results, serverState,
                 startLocals, sweepLocals, signalsLeft, faults, history>>

\* run_variant_benchmarks returned: all_results.append(result)
MainAppend ==
  /\ At("m_call")
  /\ all_results' = Append(all_results, retval)
  /\ vi' = NextVariant(vi, "error" \in DOMAIN retval)
  /\ stack' = Goto("m_loop")
  /\ UNCHANGED <<config, analyzer, exc, pending, halted, serverState, startLocals,
                 sweepLocals, signalsLeft, faults, history>>

\* after the loop: the report is generated when all_results is non-empty,
\* otherwise sys.exit(1)
MainReport ==
  /\ At("m_report")
  /\ halted' = IF all_results # <<>> THEN "done" ELSE "exit1"
  /\ stack' = <<>>
  /\ UNCHANGED <<config, analyzer, exc, pending, vi, all_results, serverState, startLocals,
                 sweepLocals, signalsLeft, faults, history>>

\* ---------------------------------------------------------- ServerManager
NewProc(v) == [variant |-> v, alive |-> TRUE, ready |-> FALSE, stops |-> 0]

\* the start operations that begin with "if self.check_server(port): return False"
ChecksPortJvmLocalOnly(v) == v = "jvm-local"
ChecksPort(v) == v \in Variants

\* check_server before anything is started: a listener already on the port
\* makes the start operation return False
StartCheck ==
  /\ At("s_check")
  /\ \E live \in BOOLEAN :
       /\ Deviation(live)
       /\ IF live /\ ChecksPort(variant)
          THEN startRet' = FALSE /\ stack' = Pop
          ELSE startRet' = startRet /\ stack' = Goto("s_build")
  /\ UNCHANGED <<config, analyzer, exc, pending, halted, vi, all_results, serverState,
                 process, attempt, waitRet, elapsed, sweepLocals, signalsLeft,
                 history>>

\* the build steps run with check=True, outside the try block of start_*
StartBuild ==
  /\ At("s_build")
  /\ \E need \in BuildNeeded(variant), ok \in BOOLEAN :
       /\ need \/ ok
       /\ Deviation(~ok \/ (need /\ BuildNeeded(variant) # {TRUE}))
       /\ elapsed' = IF need THEN elapsed + BuildTime ELSE elapsed
       /\ IF need /\ ~ok
          THEN exc' = "Exception" /\ stack' = stack
          ELSE exc' = exc /\ stack' = Goto("s_popen")
  /\ UNCHANGED <<config, analyzer, pending, halted, vi, all_results, serverState, process,
                 attempt, waitRet, startRet, sweepLocals, signalsLeft, history>>

\* process = subprocess.Popen(...)
StartPopen ==
  /\ At("s_popen")
  /\ \E ok \in BOOLEAN :
       /\ Deviation(~ok)
       /\ IF ok
          THEN /\ procs' = Append(procs, NewProc(variant))
               /\ process' = Len(procs) + 1
               /\ stack' = Goto("s_assign")
               /\ exc' = exc
          ELSE /\ exc' = "Exception"
               /\ UNCHANGED <<procs, process, stack>>
  /\ UNCHANGED <<config, analyzer, pending, halted, vi, all_results, server_process,
                 current_variant, attempt, waitRet, startRet, elapsed, sweepLocals,
                 signalsLeft, history>>

\* self.config.server_process = process; current_variant = ...; then
\* wait_for_server is called
StartAssign ==
  /\ At("s_assign")
  /\ server_process' = process
  /\ current_variant' = Some(variant)
  /\ attempt' = 1
  /\ stack' = Call("s_wait", "w_poll")
  /\ UNCHANGED <<config, analyzer, exc, pending, halted, vi, all_results, procs, process,
                 waitRet, startRet, elapsed, sweepLocals, signalsLeft, faults,
                 history>>

\* the value a start operation returns after readiness polling
StartResultAlwaysTrue(ready) == TRUE
StartResult(ready) == ready

StartAfterWait ==
  /\ At("s_wait")
  /\ IF StartResult(waitRet)
     THEN startRet' = TRUE /\ stack' = Pop
     ELSE startRet' = startRet /\ stack' = Call("s_stop", "st_enter")
  /\ timedOut' = IF waitRet THEN timedOut ELSE timedOut \cup {vi}
  /\ UNCHANGED <<config, analyzer, exc, pending, halted, vi, all_results, serverState,
                 process, attempt, waitRet, elapsed, sweepLocals, signalsLeft,
                 faults, calls, client, cmd, stopTarget, attempted>>

StartAfterStop ==
  /\ At("s_stop")
  /\ startRet' = FALSE
  /\ stack' = Pop
  /\ UNCHANGED <<config, analyzer, exc, pending, halted, vi, all_results, serverState,
                 process, attempt, waitRet, elapsed, sweepLocals, signalsLeft,
                 faults, history>>

\* "for attempt in range(1, max_attempts + 1)": the loop is over
PollsExhaustedEarly(a, n) == a >= n
PollsExhausted(a, n) == a > n

\* one iteration of the polling loop of wait_for_server
WaitPoll ==
  /\ At("w_poll")
  /\ IF PollsExhausted(attempt, max_attempts(variant))
     THEN /\ waitRet' = FALSE
          /\ stack' = Pop
          /\ UNCHANGED <<attempt, elapsed, procs, faults>>
     ELSE \E accepting \in BOOLEAN :
            /\ Deviation(~accepting /\ attempt = 1)
            /\ IF accepting
               THEN /\ waitRet' = TRUE
                    /\ procs' = [procs EXCEPT ![server_process].ready = TRUE]
                    /\ elapsed' = elapsed + SettleDelay
                    /\ stack' = Pop
                    /\ attempt' = attempt
               ELSE /\ attempt' = attempt + 1
                    /\ elapsed' = elapsed + PollInterval
                    /\ UNCHANGED <<waitRet, procs, stack>>
  /\ UNCHANGED <<config, analyzer, exc, pending, halted, vi, all_results, server_process,
                 current_variant, process, startRet, sweepLocals, signalsLeft,
                 history>>

\* Popen.terminate() and Popen.kill() signal the child; a child started
\* through sudo belongs to root and signalling it can raise PermissionError
SignalOutcomes(p) ==
  IF UsesSudo(procs[p].variant) THEN {"sent", "raises"} ELSE {"sent"}

\* stop_server: "if self.config.server_process:" and terminate()
StopEnter ==
  /\ At("st_enter")
  /\ IF server_process = 0
     THEN /\ stack' = Pop
          /\ UNCHANGED <<procs, stopTarget, faults>>
     ELSE /\ stopTarget' = server_process
          /\ procs' = [procs EXCEPT ![server_process].stops = @ + 1]
          /\ IF ~procs[server_process].alive
             THEN stack' = Goto("st_wait") /\ faults' = faults
             ELSE \E o \in SignalOutcomes(server_process) :
                    /\ Deviation(o = "raises")
                    /\ stack' = Goto(IF o = "sent" THEN "st_wait" ELSE "st_finally")
  /\ UNCHANGED <<config, analyzer, exc, pending, halted, vi, all_results, server_process,
                 current_variant, startLocals, sweepLocals, signalsLeft,
                 calls, client, cmd, timedOut, attempted>>

\* server_process.wait(timeout=5)
StopWait ==
  /\ At("st_wait")
  /\ IF ~procs[server_process].alive
     THEN procs' = procs /\ stack' = Goto("st_finally") /\ faults' = faults
     ELSE \E exits \in BOOLEAN :
            /\ Deviation(~exits)
            /\ IF exits
               THEN /\ procs' = [procs EXCEPT ![server_process].alive = FALSE]
                    /\ stack' = Goto("st_finally")
               ELSE procs' = procs /\ stack' = Goto("st_kill")
  /\ UNCHANGED <<config, analyzer, exc, pending, halted, vi, all_results, server_process,
                 current_variant, startLocals, sweepLocals, signalsLeft,
                 history>>

\* except subprocess.TimeoutExpired: server_process.kill()
StopKill ==
  /\ At("st_kill")
  /\ \E o \in SignalOutcomes(server_process) :
       /\ procs' = procs
       /\ stack' = Goto(IF o = "sent" THEN "st_wait2" ELSE "st_finally")
  /\ UNCHANGED <<config, analyzer, exc, pending, halted, vi, all_results, server_process,
                 current_variant, startLocals, sweepLocals, signalsLeft, faults,
                 history>>

\* server_process.wait() after kill(): returns when the process has exited
StopWait2 ==
  /\ At("st_wait2")
  /\ procs' = [procs EXCEPT ![server_process].alive = FALSE]
  /\ stack' = Goto("st_finally")
  /\ UNCHANGED <<config, analyzer, exc, pending, halted, vi, all_results, server_process,
                 current_variant, startLocals, sweepLocals, signalsLeft, faults,
                 history>>

StopFinallyKeepsVariant ==
  /\ At("st_finally")
  /\ server_process' = 0
  /\ stack' = Goto("st_ret")
  /\ UNCHANGED <<config, analyzer, exc, pending, halted, vi, all_results, procs,
                 current_variant, startLocals, sweepLocals, signalsLeft, faults,
                 history>>

\* finally: server_process = None; current_variant = None
StopFinally ==
  /\ At("st_finally")
  /\ server_process' = 0
  /\ current_variant' = None
  /\ stack' = Goto("st_ret")
  /\ UNCHANGED <<config, analyzer, exc, pending, halted, vi, all_results, procs,
                 startLocals, sweepLocals, signalsLeft, faults, history>>

StopReturn ==
  /\ At("st_ret")
  /\ stack' = Pop
  /\ UNCHANGED <<config, analyzer, exc, pending, halted, vi, all_results, serverState,
                 startLocals, sweepLocals, signalsLeft, faults, history>>
\* ---------------------------------------------------- run_variant_benchmarks
\* labels of run_variant_benchmarks that lie inside its try ... finally
RvbTryNone == {}
RvbTry == {"rvb_warmup", "rvb_strong", "rvb_weak"}

\* the keys of server_configs
server_configs == {"jvm-local", "jvm-gramine", "native-dynamic", "native-static"}

\* "if variant not in server_configs: return {... 'error': 'unknown_variant'}",
\* else startup_start = time.time(); start_func()
RvbBegin ==
  /\ At("rvb_begin")
  /\ attempted' = attempted \cup {vi}
  /\ IF variant \notin server_configs
     THEN /\ retval' = [variant |-> variant, error |-> "unknown_variant"]
          /\ stack' = Pop
          /\ UNCHANGED <<elapsed, process>>
     ELSE /\ elapsed' = 0
          /\ process' = 0
          /\ stack' = Call("rvb_start", "s_check")
          /\ retval' = retval
  /\ UNCHANGED <<config, analyzer, exc, pending, halted, vi, all_results, serverState,
                 attempt, waitRet, startRet, sweep, ci, run, results, strong_results,
                 signalsLeft, faults, calls, client, cmd, stopTarget, timedOut>>

\* "if not start_func(): return {... 'error': 'server_start_failed'}"
RvbAfterStart ==
  /\ At("rvb_start")
  /\ IF startRet
     THEN /\ retval' = [variant |-> variant, startup_time |-> Some(elapsed)]
          /\ stack' = Goto("rvb_warmup")
     ELSE /\ retval' = [variant |-> variant, error |-> "server_start_failed"]
          /\ stack' = Pop
  /\ UNCHANGED <<config, analyzer, exc, pending, halted, vi, all_results, serverState,
                 startLocals, sweep, ci, run, results, strong_results,
                 signalsLeft, faults, history>>

\* the order in which run_variant_benchmarks calls the two sweeps
SweepOrderWeakFirst == <<"weak", "strong">>
SweepOrder == <<"strong", "weak">>

\* the command line run_single_test builds, as a map from option to value
\* (java, the class path and the class name are the same in every call)
client_cmdAlwaysLoadTest(port, num_clients, messages) ==
  [host |-> "localhost", port |-> port, messages |-> messages,
   truststore |-> "client.truststore", truststore_password |-> "changeit",
   load_test |-> TRUE, clients |-> num_clients]
client_cmd(port, num_clients, messages) ==
  LET single == [host |-> "localhost", port |-> port,
                 messages |-> messages,
                 truststore |-> "client.truststore",
                 truststore_password |-> "changeit"]
  IN IF num_clients > 1
     THEN Merge(single, [load_test |-> TRUE, clients |-> num_clients])
     ELSE single

\* one client invocation; all but MaxFaults of them behave nominally
Invoke(total, cr) ==
  /\ cr \in ClientResults(clientEnv, total)
  /\ Deviation(cr # NominalClient(total))
  /\ calls' = calls + 1
  /\ client' = cr

\* the list run_strong_scaling starts from: the value of the warmup call is
\* not bound to anything, and the sweep begins with "results = []"
AfterWarmupKept(rec) == <<rec>>
AfterWarmup(rec) == <<>>

\* the warmup run_single_test(variant, port, 1, 10, 0), whose record is
\* dropped, then the call of run_strong_scaling
RvbWarmup ==
  /\ At("rvb_warmup")
  /\ \E cr \in ClientResults(clientEnv, WarmupMessages) :
       /\ Invoke(WarmupMessages, cr)
       /\ cmd' = Some(client_cmd(Port(variant), 1, WarmupMessages))
       /\ IF cr.kind # "exit" /\ ~RunCatches(cr.kind)
          THEN exc' = "Exception" /\ UNCHANGED <<stack, sweep, ci, run, results>>
          ELSE /\ exc' = exc
               /\ sweep' = SweepOrder[1]
               /\ ci' = 1
               /\ run' = 1
               /\ results' = AfterWarmup(run_single_test(variant, 1, WarmupMessages, 0, cr))
               /\ stack' = Call("rvb_strong", "sw_run")
  /\ UNCHANGED <<config, analyzer, pending, halted, vi, all_results, serverState,
                 startLocals, strong_results, retval, signalsLeft, stopTarget,
                 timedOut, attempted>>

\* one pass of the inner loop of run_strong_scaling / run_weak_scaling, or
\* the return of the list when the grid is exhausted
SweepRun ==
  /\ At("sw_run")
  /\ IF ci > Len(client_counts)
     THEN /\ stack' = Pop
          /\ UNCHANGED <<exc, ci, run, results, faults, calls, client, cmd>>
     ELSE LET nc == client_counts[ci]
              mpc == messages_per_client(sweep, nc)
          IN \E cr \in ClientResults(clientEnv, nc * mpc) :
               /\ Invoke(nc * mpc, cr)
               /\ cmd' = Some(client_cmd(Port(variant), nc, mpc))
               /\ IF cr.kind # "exit" /\ ~RunCatches(cr.kind)
                  THEN exc' = "Exception" /\ UNCHANGED <<stack, ci, run, results>>
                  ELSE LET result == Merge(run_single_test(variant, nc, mpc, run, cr),
                                           [scaling_type |-> sweep])
                       IN /\ results' = Append(results, result)
                          /\ stack' = stack
                          /\ IF ProgressLineRaises(result)
                             THEN exc' = "Exception" /\ UNCHANGED <<ci, run>>
                             ELSE /\ exc' = exc
                                  /\ run' = IF run < num_runs THEN run + 1 ELSE 1
                                  /\ ci' = IF run < num_runs THEN ci ELSE ci + 1
  /\ UNCHANGED <<config, analyzer, pending, halted, vi, all_results, serverState,
                 startLocals, sweep, strong_results, retval, signalsLeft,
                 stopTarget, timedOut, attempted>>

\* strong_results = run_strong_scaling(...); sleep; call of run_weak_scaling
RvbAfterStrong ==
  /\ At("rvb_strong")
  /\ strong_results' = results
  /\ sweep' = SweepOrder[2]
  /\ ci' = 1
  /\ run' = 1
  /\ results' = <<>>
  /\ stack' = Call("rvb_weak", "sw_run")
  /\ UNCHANGED <<config, analyzer, exc, pending, halted, vi, all_results, serverState,
                 startLocals, retval, signalsLeft, faults, history>>

\* weak_results = run_weak_scaling(...); the return statement evaluates the
\* dict, then the finally block calls stop_server
RvbAfterWeak ==
  /\ At("rvb_weak")
  /\ retval' = Merge(retval, [strong_scaling |-> strong_results,
                              weak_scaling |-> results])
  /\ stack' = Call("rvb_fin_ret", "st_enter")
  /\ UNCHANGED <<config, analyzer, exc, pending, halted, vi, all_results, serverState,
                 startLocals, sweep, ci, run, results, strong_results,
                 signalsLeft, faults, history>>

\* end of the finally block: cool-down, then the return or the re-raise
RvbFinallyDone ==
  /\ Running
  /\ Top \in {"rvb_fin_ret", "rvb_fin_exc"}
  /\ exc' = IF Top = "rvb_fin_exc" THEN pending ELSE exc
  /\ pending' = "none"
  /\ stack' = Pop
  /\ UNCHANGED <<config, analyzer, halted, vi, all_results, serverState, startLocals,
                 sweepLocals, signalsLeft, faults, history>>

\* ------------------------------------------------------------ main.cleanup
\* delivery of SIGINT or SIGTERM: the handler runs on top of the current frame
Signal ==
  /\ Running
  /\ signalsLeft > 0
  /\ signalsLeft' = signalsLeft - 1
  /\ stack' = Append(stack, "cl_enter")
  /\ UNCHANGED <<config, analyzer, exc, pending, halted, vi, all_results, serverState,
                 startLocals, sweepLocals, faults, history>>

CleanupEnter ==
  /\ At("cl_enter")
  /\ stack' = Call("cl_stop", "st_enter")
  /\ UNCHANGED <<config, analyzer, exc, pending, halted, vi, all_results, serverState,
                 startLocals, sweepLocals, signalsLeft, faults, history>>

\* finally: sys.exit(0)
CleanupExit ==
  /\ At("cl_stop")
  /\ exc' = "SystemExit"
  /\ stack' = Pop
  /\ UNCHANGED <<config, analyzer, pending, halted, vi, all_results, serverState,
                 startLocals, sweepLocals, signalsLeft, faults, history>>

\* ------------------------------------------------------ exception unwinding
\* wait_for_server and the sweeps have no handler
UnwindPlain ==
  /\ Unwinding
  /\ Top \in {"w_poll", "sw_run"}
  /\ stack' = Pop
  /\ UNCHANGED <<config, analyzer, exc, pending, halted, vi, all_results, serverState,
                 startLocals, sweepLocals, signalsLeft, faults, history>>

\* start_*: "except Exception: return False" around Popen and the polling
StartTry == {"s_popen", "s_assign", "s_wait", "s_stop"}

UnwindStart ==
  /\ Unwinding
  /\ Top \in StartLabels
  /\ IF Top \in StartTry /\ exc = "Exception"
     THEN exc' = "none" /\ startRet' = FALSE
     ELSE exc' = exc /\ startRet' = startRet
  /\ stack' = Pop
  /\ UNCHANGED <<config, analyzer, pending, halted, vi, all_results, serverState, process,
                 attempt, waitRet, elapsed, sweepLocals, signalsLeft, faults,
                 history>>

\* stop_server: the finally clause runs when the exception left the try block
StopTry == {"st_wait", "st_kill", "st_wait2"}

UnwindStop ==
  /\ Unwinding
  /\ Top \in StopLabels
  /\ IF Top \in StopTry
     THEN server_process' = 0 /\ current_variant' = None
     ELSE UNCHANGED <<server_process, current_variant>>
  /\ stack' = Pop
  /\ UNCHANGED <<config, analyzer, exc, pending, halted, vi, all_results, procs,
                 startLocals, sweepLocals, signalsLeft, faults, history>>

\* run_variant_benchmarks: "finally: stop_server(); sleep(3)"
UnwindRvb ==
  /\ Unwinding
  /\ Top \in RvbLabels
  /\ IF Top \in RvbTry
     THEN /\ pending' = exc
          /\ exc' = "none"
          /\ stack' = Call("rvb_fin_exc", "st_enter")
     ELSE /\ stack' = Pop
          /\ UNCHANGED <<exc, pending>>
  /\ UNCHANGED <<config, analyzer, halted, vi, all_results, serverState, startLocals,
                 sweepLocals, signalsLeft, faults, history>>

\* cleanup: "except Exception: print ... finally: sys.exit(0)"
UnwindCleanup ==
  /\ Unwinding
  /\ Top \in CleanupLabels
  /\ exc' = "SystemExit"
  /\ stack' = Pop
  /\ UNCHANGED <<config, analyzer, pending, halted, vi, all_results, serverState,
                 startLocals, sweepLocals, signalsLeft, faults, history>>

\* main: the inner try catches Exception and goes on with the next variant;
\* SystemExit leaves main and ends the program
UnwindMain ==
  /\ Unwinding
  /\ Top \in MainLabels
  /\ IF Top = "m_call" /\ MainCatches(exc)
     THEN /\ exc' = "none"
          /\ vi' = NextVariant(vi, TRUE)
          /\ stack' = Goto("m_loop")
          /\ halted' = halted
     ELSE /\ halted' = IF exc = "SystemExit" THEN "exit0" ELSE "exit1"
          /\ stack' = <<>>
          /\ UNCHANGED <<exc, vi>>
  /\ UNCHANGED <<config, analyzer, pending, all_results, serverState, startLocals,
                 sweepLocals, signalsLeft, faults, history>>

Next ==
  \/ MainSudo
  \/ MainSudoPrompt
  \/ MainLoop
  \/ MainAppend
  \/ MainReport
  \/ RvbBegin
  \/ RvbAfterStart
  \/ RvbWarmup
  \/ SweepRun
  \/ RvbAfterStrong
  \/ RvbAfterWeak
  \/ RvbFinallyDone
  \/ StartCheck
  \/ StartBuild
  \/ StartPopen
  \/ StartAssign
  \/ StartAfterWait
  \/ StartAfterStop
  \/ WaitPoll
  \/ StopEnter
  \/ StopWait
  \/ StopKill
  \/ StopWait2
  \/ StopFinally
  \/ StopReturn
  \/ Signal
  \/ CleanupEnter
  \/ CleanupExit
  \/ UnwindPlain
  \/ UnwindStart
  \/ UnwindStop
  \/ UnwindRvb
  \/ UnwindCleanup
  \/ UnwindMain

Spec == Init /\ [][Next]_vars

\* the comparison of jvm-gramine with the baseline, one run per
\* configuration, during which up to MaxSignals interrupts may arrive
InitInterrupt ==
  /\ Start(MaxSignals)
  /\ variants_to_run = <<"jvm-local", "jvm-gramine">>
  /\ num_runs = 1

SpecInterrupt == InitInterrupt /\ [][Next]_vars

\* the suite without interrupts: main.cleanup never runs
NextSuite ==
  \/ MainSudo
  \/ MainSudoPrompt
  \/ MainLoop
  \/ MainAppend
  \/ MainReport
  \/ RvbBegin
  \/ RvbAfterStart
  \/ RvbWarmup
  \/ SweepRun
  \/ RvbAfterStrong
  \/ RvbAfterWeak
  \/ RvbFinallyDone
  \/ StartCheck
  \/ StartBuild
  \/ StartPopen
  \/ StartAssign
  \/ StartAfterWait
  \/ StartAfterStop
  \/ WaitPoll
  \/ StopEnter
  \/ StopWait
  \/ StopKill
  \/ StopWait2
  \/ StopFinally
  \/ StopReturn
  \/ UnwindPlain
  \/ UnwindStart
  \/ UnwindRvb
  \/ UnwindMain

SpecSuite == InitSuite /\ [][NextSuite]_vars

\* the warmup and the two sweeps of one variant, up to the finally block
NextSweep ==
  \/ RvbWarmup
  \/ SweepRun
  \/ RvbAfterStrong
  \/ RvbAfterWeak
  \/ UnwindPlain
  \/ UnwindRvb

\* ------------------------------------------------------------ ScalingAnalyzer
\* Floats are modelled by exact fractions in lowest terms.
RECURSIVE GCD(_, _)
GCD(a, b) == IF b = 0 THEN a ELSE GCD(b, a % b)

Frac(n, d) == LET g == GCD(n, d) IN [num |-> n \div g, den |-> d \div g]

RECURSIVE SumSeq(_)
SumSeq(xs) == IF xs = <<>> THEN 0 ELSE xs[1] + SumSeq(Tail(xs))

RECURSIVE SumSquares(_)
SumSquares(xs) == IF xs = <<>> THEN 0 ELSE xs[1] * xs[1] + SumSquares(Tail(xs))

\* statistics.mean
Mean(xs) == Frac(SumSeq(xs), Len(xs))

\* statistics.stdev of two or more samples, kept as the fraction whose square
\* root it is: the sample variance
Stdev(xs) ==
  [sqrt_of |-> Frac(Len(xs) * SumSquares(xs) - SumSeq(xs) * SumSeq(xs),
                    Len(xs) * (Len(xs) - 1))]

\* the literal 0.0 stored as a stdev
ZeroStdev == [sqrt_of |-> Frac(0, 1)]

\* sorted(keys)
RECURSIVE Sorted(_)
Sorted(S) ==
  IF S = {} THEN <<>>
  ELSE LET m == CHOOSE x \in S : \A y \in S : x <= y
       IN <<m>> \o Sorted(S \ {m})

\* [f(x) for x in xs]
RECURSIVE MapValue(_, _)
MapValue(xs, key) ==
  IF xs = <<>> THEN <<>> ELSE <<xs[1][key][1]>> \o MapValue(Tail(xs), key)

\* {}
EmptyDict == [k \in {} |-> None]

\* which records "[r[key] for r in runs if r.get(key)]" keeps
SampleKeptIfPresent(r, key) == Get(r, key, None) # None
SampleKeptIfSucceeded(r, key) == r.success /\ Truthy(Get(r, key, None))
SampleKept(r, key) == Truthy(Get(r, key, None))

Samples(runs, key) ==
  MapValue(SelectSeq(runs, LAMBDA r : SampleKept(r, key)), key)

\* the mean and stdev entries aggregate_runs adds for one metric
MetricStats(samples, mean_key, stdev_key) ==
  IF samples = <<>> THEN EmptyDict
  ELSE [k \in {mean_key, stdev_key} |->
          IF k = mean_key THEN Mean(samples)
          ELSE IF Len(samples) > 1 THEN Stdev(samples) ELSE ZeroStdev]

aggregate_runs(rs) ==
  IF rs = <<>> THEN EmptyDict
  ELSE LET by_clients(nc) == SelectSeq(rs, LAMBDA r : Get(r, "num_clients", 0) = nc)
           keys == Sorted({Get(rs[i], "num_clients", 0) : i \in DOMAIN rs})
           point(num_clients) ==
             LET runs == by_clients(num_clients)
                 agg == [num_clients |-> num_clients,
                         num_runs |-> Len(runs),
                         messages_per_client |-> Get(runs[1], "messages_per_client", 0),
                         total_messages |-> Get(runs[1], "total_messages", Some(0))]
             IN Merge(Merge(agg, MetricStats(Samples(runs, "throughput"),
                                             "throughput_mean", "throughput_stdev")),
                      MetricStats(Samples(runs, "avg_latency"),
                                  "latency_mean", "latency_stdev"))
       IN [aggregated |-> [i \in DOMAIN keys |-> point(keys[i])], raw |-> rs]

\* client output with the given throughput and average latency lines only
OutMetrics(t, a) == [NoOutput EXCEPT !.tput = t, !.avg = a]

\* outcomes of the client runs whose records are aggregated
AnalyzedClients ==
  {Exited(0, OutMetrics(Some(100), Some(50))),
   Exited(0, OutMetrics(Some(150), Some(25))),
   Exited(0, OutMetrics(Some(100), None)),
   Exited(0, OutMetrics(None, Some(50))),
   Exited(0, OutMetrics(Some(0), Some(0))),
   Exited(1, OutMetrics(Some(150), Some(25))),
   Exited(1, OutMetrics(Some(0), Some(25))),
   TimedOut}

\* run records of a strong sweep with 1 and 2 clients
AnalyzedRecords ==
  {Merge(run_single_test("jvm-local", nc, messages_per_client("strong", nc), 1, cr),
         [scaling_type |-> "strong"]) :
     nc \in {1, 2}, cr \in AnalyzedClients}

RunLists == UNION {[1..n -> AnalyzedRecords] : n \in 0..MaxRecords}

\* the orchestrator's variables while only the analyzer is exercised
program ==
  <<variants_to_run, num_runs, clientEnv, stack, exc, pending, halted, vi,
    all_results, server_process, current_variant, procs, process, attempt,
    waitRet, startRet, elapsed, sweep, ci, run, results, strong_results, retval,
    signalsLeft, faults, calls, client, cmd, stopTarget, timedOut, attempted, args>>

Idle ==
  /\ variants_to_run = <<>>
  /\ args = None
  /\ num_runs = 1
  /\ clientEnv = "any"
  /\ stack = <<>>
  /\ exc = "none"
  /\ pending = "none"
  /\ halted = "no"
  /\ vi = 1
  /\ all_results = <<>>
  /\ server_process = 0
  /\ current_variant = None
  /\ procs = <<>>
  /\ process = 0
  /\ attempt = 1
  /\ waitRet = FALSE
  /\ startRet = FALSE
  /\ elapsed = 0
  /\ sweep = "strong"
  /\ ci = 1
  /\ run = 1
  /\ results = <<>>
  /\ strong_results = <<>>
  /\ retval = [variant |-> "none"]
  /\ signalsLeft = 0
  /\ faults = 0
  /\ calls = 0
  /\ cmd = None
  /\ client = [kind |-> "none"]
  /\ stopTarget = 0
  /\ timedOut = {}
  /\ attempted = {}

\* a call of aggregate_runs on a list of run records
InitAggregate ==
  /\ Idle
  /\ analyzer \in {[fn |-> "aggregate_runs", results |-> rs, ret |-> None] :
                     rs \in RunLists}

AggregateRuns ==
  /\ analyzer.fn = "aggregate_runs"
  /\ analyzer.ret = None
  /\ analyzer' = [analyzer EXCEPT !.ret = Some(aggregate_runs(analyzer.results))]
  /\ UNCHANGED program

NextAggregate == AggregateRuns

SpecAggregate == InitAggregate /\ [][NextAggregate]_vars

\* x / y for fractions, y not zero
Div(x, y) == Frac(x.num * y.den, x.den * y.num)

IsZero(x) == x.num = 0

\* calculate_speedup: the value returned, or raises when the division is by 0.0
calculate_speedup(baseline_value, variant_value, metric_type) ==
  IF baseline_value = None \/ variant_value = None \/ IsZero(variant_value[1])
  THEN [raises |-> FALSE, value |-> None]
  ELSE IF metric_type = "throughput"
       THEN IF IsZero(baseline_value[1])
            THEN [raises |-> TRUE, value |-> None]
            ELSE [raises |-> FALSE,
                  value |-> Some(Div(variant_value[1], baseline_value[1]))]
       ELSE [raises |-> FALSE, value |-> Some(Div(baseline_value[1], variant_value[1]))]

calculate_efficiencyTimesClients(speedup, num_clients) ==
  IF speedup = None \/ num_clients = 0 THEN None
  ELSE Some(Frac(speedup[1].num * num_clients, speedup[1].den))

calculate_efficiency(speedup, num_clients) ==
  IF speedup = None \/ num_clients = 0 THEN None
  ELSE Some(Div(speedup[1], Frac(num_clients, 1)))

\* means handed to calculate_speedup: none, zero, and some positive values
MetricValues == {None} \cup {Some(Frac(x, 1)) : x \in {0, 25, 50, 100, 150, 400}}

\* a call of calculate_speedup followed by calculate_efficiency on its value,
\* as made for one row of a scaling CSV
InitSpeedup ==
  /\ Idle
  /\ analyzer \in {[fn |-> "calculate_speedup", baseline_value |-> b,
                     variant_value |-> v, metric_type |-> m, num_clients |-> nc,
                     at |-> "called", speedup |-> None, efficiency |-> None] :
                      b \in MetricValues, v \in MetricValues,
                      m \in {"throughput", "latency"},
                      nc \in {0} \cup {client_counts[i] : i \in DOMAIN client_counts}}

CalculateSpeedup ==
  /\ analyzer.fn = "calculate_speedup"
  /\ analyzer.at = "called"
  /\ LET r == calculate_speedup(analyzer.baseline_value, analyzer.variant_value,
                                analyzer.metric_type)
     IN analyzer' = [analyzer EXCEPT !.at = IF r.raises THEN "raised" ELSE "speedup",
                                     !.speedup = r.value]
  /\ UNCHANGED program

CalculateEfficiency ==
  /\ analyzer.fn = "calculate_speedup"
  /\ analyzer.at = "speedup"
  /\ analyzer' = [analyzer EXCEPT
                    !.at = "efficiency",
                    !.efficiency = calculate_efficiency(analyzer.speedup,
                                                        analyzer.num_clients)]
  /\ UNCHANGED program

NextSpeedup == CalculateSpeedup \/ CalculateEfficiency

SpecSpeedup == InitSpeedup /\ [][NextSpeedup]_vars

\* ------------------------------------------------- command line, direct calls
\* the command lines explored: none of the two options, --variants with a
\* selection, with a name that is no variant, and --all
CommandLines ==
  {CommandLine(FALSE, None), CommandLine(TRUE, None),
   CommandLine(FALSE, Some(<<"jvm-remote">>)),
   CommandLine(FALSE, Some(<<"jvm-local", "jvm-remote">>)),
   CommandLine(TRUE, Some(<<"jvm-remote">>))}
  \cup {CommandLine(FALSE, Some(sel)) : sel \in Selections}

\* the arguments of the direct calls of run_variant_benchmarks explored
DirectCalls == {<<v>> : v \in Variants \cup {"jvm-remote"}}

\* the program at the entry of main with a command line, or at the entry of
\* run_variant_benchmarks called on its own with a variant name
InitCommand ==
  /\ \/ /\ args \in CommandLines
        /\ variants_to_run = <<>>
        /\ stack = <<"m_parse">>
     \/ /\ args = None
        /\ variants_to_run \in DirectCalls
        /\ stack = <<"rvb_begin">>
  /\ num_runs \in 1..MaxRuns
  /\ clientEnv = "latency"
  /\ analyzer = NoCall
  /\ exc = "none"
  /\ pending = "none"
  /\ halted = "no"
  /\ vi = 1
  /\ all_results = <<>>
  /\ server_process = 0
  /\ current_variant = None
  /\ procs = <<>>
  /\ process = 0
  /\ attempt = 1
  /\ waitRet = FALSE
  /\ startRet = FALSE
  /\ elapsed = 0
  /\ sweep = "strong"
  /\ ci = 1
  /\ run = 1
  /\ results = <<>>
  /\ strong_results = <<>>
  /\ retval = [variant |-> "none"]
  /\ signalsLeft = 0
  /\ faults = 0
  /\ calls = 0
  /\ cmd = None
  /\ client = [kind |-> "none"]
  /\ stopTarget = 0
  /\ timedOut = {}
  /\ attempted = {}

\* the suite from the command line on, when no interrupt arrives
NextCommand ==
  \/ MainParse
  \/ MainSudo
  \/ MainSudoPrompt
  \/ MainLoop
  \/ MainAppend
  \/ MainReport
  \/ RvbBegin
  \/ RvbAfterStart
  \/ RvbWarmup
  \/ SweepRun
  \/ RvbAfterStrong
  \/ RvbAfterWeak
  \/ RvbFinallyDone
  \/ StartCheck
  \/ StartBuild
  \/ StartPopen
  \/ StartAssign
  \/ StartAfterWait
  \/ StartAfterStop
  \/ WaitPoll
  \/ StopEnter
  \/ StopWait
  \/ StopKill
  \/ StopWait2
  \/ StopFinally
  \/ StopReturn
  \/ UnwindPlain
  \/ UnwindStart
  \/ UnwindRvb
  \/ UnwindMain

SpecCommand == InitCommand /\ [][NextCommand]_vars

\* ---------------------------------------------------- readiness wait under way
\* the first selected variant inside its start operation: the process is
\* launched and recorded, wait_for_server has polled once without an answer
InitStart ==
  /\ variants_to_run \in Selections
  /\ args = CommandLine(FALSE, Some(variants_to_run))
  /\ num_runs \in 1..MaxRuns
  /\ clientEnv = "latency"
  /\ analyzer = NoCall
  /\ stack = <<"m_call", "rvb_start", "s_wait", "w_poll">>
  /\ exc = "none"
  /\ pending = "none"
  /\ halted = "no"
  /\ vi = 1
  /\ all_results = <<>>
  /\ server_process = 1
  /\ current_variant = Some(variants_to_run[1])
  /\ procs = <<[variant |-> variants_to_run[1], alive |-> TRUE, ready |-> FALSE,
                stops |-> 0]>>
  /\ process = 1
  /\ attempt = 2
  /\ waitRet = FALSE
  /\ startRet = FALSE
  /\ elapsed = PollInterval + (IF variants_to_run[1] = "jvm-gramine" THEN BuildTime ELSE 0)
  /\ sweep = "strong"
  /\ ci = 1
  /\ run = 1
  /\ results = <<>>
  /\ strong_results = <<>>
  /\ retval = [variant |-> "none"]
  /\ signalsLeft = 0
  /\ faults = 0
  /\ calls = 0
  /\ cmd = None
  /\ client = [kind |-> "none"]
  /\ stopTarget = 0
  /\ timedOut = {}
  /\ attempted = {1}

\* the rest of the suite from there, when no interrupt arrives
NextStart ==
  \/ MainLoop
  \/ MainAppend
  \/ MainReport
  \/ RvbBegin
  \/ RvbAfterStart
  \/ RvbWarmup
  \/ SweepRun
  \/ RvbAfterStrong
  \/ RvbAfterWeak
  \/ RvbFinallyDone
  \/ StartCheck
  \/ StartBuild
  \/ StartPopen
  \/ StartAssign
  \/ StartAfterWait
  \/ StartAfterStop
  \/ WaitPoll
  \/ StopEnter
  \/ StopWait
  \/ StopKill
  \/ StopWait2
  \/ StopFinally
  \/ StopReturn
  \/ UnwindPlain
  \/ UnwindStart
  \/ UnwindRvb
  \/ UnwindMain

SpecStart == InitStart /\ [][NextStart]_vars

\* ------------------------------------------------------- extract_from_output
\* client outputs with or without a throughput line, a loose "N messages/s"
\* match, a total time (0, 1000 or 2000 ms) and a total message count
\* (0, 400 or 1000)
ExtractedOutputs ==
  {[NoOutput EXCEPT !.tput = t, !.loose = l, !.avg = a, !.ttime = tt, !.tmsgs = tm] :
     t \in {None, Some(200)}, l \in {None, Some(150)}, a \in {None, Some(5)},
     tt \in {None, Some(0), Some(1000), Some(2000)},
     tm \in {None, Some(0), Some(400), Some(1000)}}

\* a call of extract_from_output on a client output
InitExtract ==
  /\ Idle
  /\ analyzer \in {[fn |-> "extract_from_output", output |-> out, ret |-> None] :
                     out \in ExtractedOutputs}

ExtractFromOutput ==
  /\ analyzer.fn = "extract_from_output"
  /\ analyzer.ret = None
  /\ analyzer' = [analyzer EXCEPT !.ret = Some(extract_from_output(analyzer.output))]
  /\ UNCHANGED program

NextExtract == ExtractFromOutput

SpecExtract == InitExtract /\ [][NextExtract]_vars

\* ----------------------------------------------------- generate_scaling_report
\* 10 ** places
RECURSIVE Pow10(_)
Pow10(places) == IF places = 0 THEN 1 ELSE 10 * Pow10(places - 1)

\* round a non-negative fraction to the nearest integer, ties to even
RoundHalfEven(x) ==
  LET q == x.num \div x.den
      r == x.num % x.den
  IN IF 2 * r < x.den THEN q
     ELSE IF 2 * r > x.den THEN q + 1
     ELSE IF q % 2 = 0 THEN q ELSE q + 1

\* floor of the square root of a natural number, by bisection on lo..hi
RECURSIVE ISqrtIn(_, _, _)
ISqrtIn(n, lo, hi) ==
  IF lo >= hi THEN lo
  ELSE LET mid == (lo + hi + 1) \div 2
       IN IF mid * mid <= n THEN ISqrtIn(n, mid, hi) ELSE ISqrtIn(n, lo, mid - 1)

ISqrt(n) == ISqrtIn(n, 0, Min(n, 40000))

\* a formatted number: the digits of the value rounded to the given places
Digits(scaled, places) == [scaled |-> scaled, places |-> places]

\* f"{x:.2f}" and the like for a mean, a speedup or an efficiency
Format(x, places) ==
  Digits(RoundHalfEven(Frac(x.num * Pow10(places), x.den)), places)

\* the same for a stdev, the square root of a fraction: round(sqrt(v) * 10**p)
\* is (floor(sqrt(4 * v * 100**p)) + 1) // 2
FormatStdev(sd, places) ==
  LET v == sd.sqrt_of
      scale == Pow10(places) * Pow10(places)
  IN Digits((ISqrt((4 * v.num * scale) \div v.den) + 1) \div 2, places)

\* a CSV cell: the empty string, or a formatted number
EmptyCell == <<>>
CellZeroForMissing(d, key, places) ==
  IF key \in DOMAIN d THEN <<Format(d[key], places)>> ELSE <<Digits(0, places)>>
Cell(d, key, places) ==
  IF key \in DOMAIN d THEN <<Format(d[key], places)>> ELSE EmptyCell

StdevCell(d, key, places) ==
  IF key \in DOMAIN d THEN <<FormatStdev(d[key], places)>> ELSE EmptyCell

\* f"{v:.4f}" if v is not None else ""
OptCellZeroForNone(v, places) ==
  IF v = None THEN <<Digits(0, places)>> ELSE <<Format(v[1], places)>>
OptCell(v, places) == IF v = None THEN EmptyCell ELSE <<Format(v[1], places)>>

\* sorted(variants.keys())
VariantOrder == <<"jvm-gramine", "jvm-local", "native-dynamic", "native-static">>
SortedVariants(d) == SelectSeq(VariantOrder, LAMBDA v : v \in DOMAIN d)

\* the index of the last result of all_results that names variant v
LastOf(ar, v) ==
  CHOOSE i \in DOMAIN ar :
    /\ Get(ar[i], "variant", "") = v
    /\ \A j \in DOMAIN ar : Get(ar[j], "variant", "") = v => j <= i

NamedVariants(ar) == {Get(ar[i], "variant", "") : i \in DOMAIN ar} \ {""}

\* first pass of generate_scaling_report: processed_variants
processed_variants(ar) ==
  [v \in NamedVariants(ar) |->
     [strong |-> aggregate_runs(Get(ar[LastOf(ar, v)], "strong_scaling", <<>>)),
      weak |-> aggregate_runs(Get(ar[LastOf(ar, v)], "weak_scaling", <<>>))]]

\* first pass: startup_times, "variant_result.get('startup_time', 0.0)"
startup_times(ar) ==
  [v \in NamedVariants(ar) |-> Get(ar[LastOf(ar, v)], "startup_time", Some(0))[1]]

\* first pass: baseline_data, set when the variant is jvm-local
baseline_data(pv) == IF "jvm-local" \in DOMAIN pv THEN Some(pv["jvm-local"]) ELSE None

\* variant_data.get(law, {}).get("aggregated", [])
Points(variant_data, law) ==
  Get(Get(variant_data, law, EmptyDict), "aggregated", <<>>)

\* baseline_lookup of the CSV generators: per client count of the baseline's
\* points of that law, its throughput and latency means (None when absent)
baseline_lookup(baseline, law) ==
  IF baseline = None THEN EmptyDict
  ELSE LET pts == Points(baseline[1], law)
       IN [nc \in {pts[i].num_clients : i \in DOMAIN pts} |->
             LET agg == pts[CHOOSE i \in DOMAIN pts :
                              /\ pts[i].num_clients = nc
                              /\ \A j \in DOMAIN pts :
                                   pts[j].num_clients = nc => j <= i]
             IN [throughput |-> IF "throughput_mean" \in DOMAIN agg
                                THEN Some(agg.throughput_mean) ELSE None,
                 latency |-> IF "latency_mean" \in DOMAIN agg
                             THEN Some(agg.latency_mean) ELSE None]]

\* the speedups and efficiencies of one aggregated point against the lookup
Speedups(agg, lookup) ==
  IF agg.num_clients \notin DOMAIN lookup
  THEN [raises |-> FALSE, tp |-> None, lat |-> None, eff_tp |-> None, eff_lat |-> None]
  ELSE LET tp == calculate_speedup(lookup[agg.num_clients].throughput,
                                   IF "throughput_mean" \in DOMAIN agg
                                   THEN Some(agg.throughput_mean) ELSE None,
                                   "throughput")
           lat == calculate_speedup(lookup[agg.num_clients].latency,
                                    IF "latency_mean" \in DOMAIN agg
                                    THEN Some(agg.latency_mean) ELSE None,
                                    "latency")
       IN [raises |-> tp.raises \/ lat.raises,
           tp |-> tp.value,
           lat |-> lat.value,
           eff_tp |-> IF tp.value # None
                      THEN calculate_efficiency(tp.value, agg.num_clients) ELSE None,
           eff_lat |-> IF lat.value # None
                       THEN calculate_efficiency(lat.value, agg.num_clients) ELSE None]

\* one row of strong_scaling.csv or weak_scaling.csv (the weak rows carry
\* total_messages as well)
CsvRow(variant_name, agg, lookup, law) ==
  LET sp == Speedups(agg, lookup)
      row == [num_clients |-> agg.num_clients,
              variant |-> variant_name,
              throughput_mean |-> Cell(agg, "throughput_mean", 2),
              throughput_stdev |-> StdevCell(agg, "throughput_stdev", 2),
              latency_mean |-> Cell(agg, "latency_mean", 2),
              latency_stdev |-> StdevCell(agg, "latency_stdev", 2),
              speedup_throughput |-> OptCell(sp.tp, 4),
              speedup_latency |-> OptCell(sp.lat, 4),
              efficiency_throughput |-> OptCell(sp.eff_tp, 4),
              efficiency_latency |-> OptCell(sp.eff_lat, 4)]
  IN IF law = "weak"
     THEN Merge(row, [total_messages |-> Get(agg, "total_messages", None)])
     ELSE row

RECURSIVE Concat(_)
Concat(ss) == IF ss = <<>> THEN <<>> ELSE ss[1] \o Concat(Tail(ss))

\* the baseline a variant's rows are compared with: baseline_data as it is
\* after the loop over all_results has ended, whatever the position of
\* jvm-local in all_results
BaselineSeenSoFar(ar, v) ==
  IF \E i \in DOMAIN ar : ar[i].variant = "jvm-local" /\ i <= LastOf(ar, v)
  THEN baseline_data(processed_variants(ar)) ELSE None
BaselineSeen(ar, v) == baseline_data(processed_variants(ar))

\* _generate_strong_scaling_csv / _generate_weak_scaling_csv: the data rows
scaling_csv(ar, law) ==
  LET pv == processed_variants(ar)
      names == SortedVariants(pv)
      rows(v) == LET pts == Points(pv[v], law)
                     lookup == baseline_lookup(BaselineSeen(ar, v), law)
                 IN [i \in DOMAIN pts |-> CsvRow(v, pts[i], lookup, law)]
  IN Concat([k \in DOMAIN names |-> rows(names[k])])

\* _generate_startup_times_csv: the data rows
startup_times_csv(st) ==
  LET names == SortedVariants(st)
  IN [k \in DOMAIN names |-> [variant |-> names[k], startup_time_seconds |-> st[names[k]]]]

\* the overhead column of the startup section of the text report
Overhead(variant_name, startup, baseline_startup) ==
  IF baseline_startup > 0 /\ variant_name # "jvm-local"
  THEN [kind |-> "percent",
        negative |-> startup < baseline_startup,
        text |-> Format(Frac((IF startup < baseline_startup
                              THEN baseline_startup - startup
                              ELSE startup - baseline_startup) * 100,
                             baseline_startup), 1)]
  ELSE [kind |-> IF variant_name = "jvm-local" THEN "baseline" ELSE "N/A"]

\* the startup section of the text report
report_startup(st) ==
  LET names == SortedVariants(st)
      baseline_startup == Get(st, "jvm-local", 0)
  IN [k \in DOMAIN names |->
        [variant |-> names[k],
         startup |-> Format(Frac(st[names[k]], 1), 2),
         overhead |-> Overhead(names[k], st[names[k]], baseline_startup)]]

\* baseline_lookup of the text report: throughput_mean per client count
report_lookup(baseline, law) ==
  LET lookup == baseline_lookup(baseline, law)
  IN [nc \in DOMAIN lookup |-> lookup[nc].throughput]

\* one line of a scaling section: agg.get(key, 0) for the four statistics,
\* "N/A" (None here) or the speedup with three decimals
ReportLine(agg, lookup) ==
  LET tp_mean == Get(agg, "throughput_mean", Frac(0, 1))
  IN [num_clients |-> agg.num_clients,
      throughput_mean |-> Format(tp_mean, 2),
      throughput_stdev |-> FormatStdev(Get(agg, "throughput_stdev", ZeroStdev), 2),
      latency_mean |-> Format(Get(agg, "latency_mean", Frac(0, 1)), 2),
      latency_stdev |-> FormatStdev(Get(agg, "latency_stdev", ZeroStdev), 2),
      speedup |-> IF /\ agg.num_clients \in DOMAIN lookup
                     /\ lookup[agg.num_clients] # None
                     /\ ~IsZero(lookup[agg.num_clients][1])
                  THEN Some(Format(Div(tp_mean, lookup[agg.num_clients][1]), 3))
                  ELSE None]

\* a line of the weak section also prints total with the format "<10",
\* which None does not support
WeakLineRaises(agg) == agg.total_messages = None

\* the lines of one variant's block of a scaling section
ReportLines(variant_data, baseline, law) ==
  LET pts == Points(variant_data, law)
      lookup == report_lookup(baseline, law)
  IN [i \in DOMAIN pts |->
        IF law = "weak"
        THEN Merge(ReportLine(pts[i], lookup),
                   [total |-> pts[i].total_messages])
        ELSE ReportLine(pts[i], lookup)]

\* a scaling section: per variant in sorted order a header and its lines
report_section(pv, baseline, law) ==
  LET names == SortedVariants(pv)
  IN [k \in DOMAIN names |->
        [variant |-> names[k], lines |-> ReportLines(pv[names[k]], baseline, law)]]

\* whether writing the weak section raises TypeError
report_raises(pv) ==
  \E v \in DOMAIN pv :
    \E i \in DOMAIN Points(pv[v], "weak") : WeakLineRaises(Points(pv[v], "weak")[i])

\* _generate_text_report: the three sections, and whether the writing
\* reached "END OF REPORT"
text_report(pv, baseline, st) ==
  [startup |-> report_startup(st),
   strong |-> report_section(pv, baseline, "strong"),
   weak |-> report_section(pv, baseline, "weak"),
   complete |-> ~report_raises(pv)]

\* outcomes of the client runs whose records reach the report
ReportedClients(total) ==
  {NominalClient(total),
   Exited(0, OutMetrics(Some(100), Some(50))),
   Exited(0, OutMetrics(None, Some(50))),
   TimedOut}

\* the records a sweep of the given law leaves for num_clients clients; a
\* record whose progress line raises never reaches a returned list
ReportedRecords(v, law, nc) ==
  {rec \in {Merge(run_single_test(v, nc, messages_per_client(law, nc), 1, cr),
                  [scaling_type |-> law]) :
              cr \in ReportedClients(nc * messages_per_client(law, nc))} :
     ~ProgressLineRaises(rec)}

\* the lists of a strong sweep cut to one client count or to two, and of a
\* weak sweep cut to one client count with a measured throughput
StrongLists(v) ==
  {<<r>> : r \in ReportedRecords(v, "strong", 1)}
  \cup {<<r1, r2>> : r1 \in ReportedRecords(v, "strong", 1),
                     r2 \in ReportedRecords(v, "strong", 2)}

WeakLists(v) ==
  {<<r>> : r \in {x \in ReportedRecords(v, "weak", 1) :
                    Truthy(Get(x, "throughput", None))}}

\* the time a start without a build takes: one poll and the settle delay
NominalStartup == PollInterval + SettleDelay

\* what run_variant_benchmarks returns for variant v
VariantResults(v) ==
  {[variant |-> v, error |-> "server_start_failed"]}
  \cup {[variant |-> v, startup_time |-> Some(NominalStartup),
         strong_scaling |-> sl, weak_scaling |-> wl] :
          sl \in StrongLists(v), wl \in WeakLists(v)}

\* the lists main can hand to generate_scaling_report for jvm-local and
\* jvm-gramine, in either run order, or for one of them alone
ReportInputs ==
  LET vs == <<"jvm-local", "jvm-gramine">>
  IN UNION {{<<r>> : r \in VariantResults(vs[i])} : i \in DOMAIN vs}
     \cup {<<r1, r2>> : r1 \in VariantResults(vs[1]), r2 \in VariantResults(vs[2])}
     \cup {<<r2, r1>> : r1 \in VariantResults(vs[1]), r2 \in VariantResults(vs[2])}

\* a call of generate_scaling_report: no artifact exists yet
InitReport ==
  /\ Idle
  /\ analyzer \in {[fn |-> "generate_scaling_report", all_results |-> ar,
                     at |-> "dump", raw_results |-> None, startup_csv |-> None,
                     strong_csv |-> None, weak_csv |-> None, report |-> None] :
                      ar \in ReportInputs}

ReportAt(label) == analyzer.fn = "generate_scaling_report" /\ analyzer.at = label

\* json.dump(all_results) into raw_results.json, then the loop that fills
\* processed_variants, startup_times and baseline_data
ReportDump ==
  /\ ReportAt("dump")
  /\ analyzer' = [analyzer EXCEPT !.raw_results = Some(analyzer.all_results),
                                  !.at = "startup_csv"]
  /\ UNCHANGED program

ReportStartupCsv ==
  /\ ReportAt("startup_csv")
  /\ analyzer' = [analyzer EXCEPT
                    !.startup_csv = Some(startup_times_csv(startup_times(analyzer.all_results))),
                    !.at = "strong_csv"]
  /\ UNCHANGED program

ReportStrongCsv ==
  /\ ReportAt("strong_csv")
  /\ analyzer' = [analyzer EXCEPT
                    !.strong_csv = Some(scaling_csv(analyzer.all_results, "strong")),
                    !.at = "weak_csv"]
  /\ UNCHANGED program

ReportWeakCsv ==
  /\ ReportAt("weak_csv")
  /\ analyzer' = [analyzer EXCEPT
                    !.weak_csv = Some(scaling_csv(analyzer.all_results, "weak")),
                    !.at = "report"]
  /\ UNCHANGED program

\* _generate_text_report; a TypeError in it leaves generate_scaling_report
ReportText ==
  /\ ReportAt("report")
  /\ LET pv == processed_variants(analyzer.all_results)
         text == text_report(pv, baseline_data(pv), startup_times(analyzer.all_results))
     IN analyzer' = [analyzer EXCEPT
                       !.report = Some(text),
                       !.at = IF text.complete THEN "done" ELSE "raised"]
  /\ UNCHANGED program

NextReport ==
  \/ ReportDump
  \/ ReportStartupCsv
  \/ ReportStrongCsv
  \/ ReportWeakCsv
  \/ ReportText

SpecReport == InitReport /\ [][NextReport]_vars

SpecSweep == InitSweep /\ [][NextSweep]_vars
\* ==================================================================== claims
Alive == {p \in DOMAIN procs : procs[p].alive}

\* every run record a sweep has produced so far
RunRecords ==
  {results[i] : i \in DOMAIN results}
    \cup {strong_results[i] : i \in DOMAIN strong_results}
    \cup UNION {{Get(all_results[k], "strong_scaling", <<>>)[i] :
                   i \in DOMAIN Get(all_results[k], "strong_scaling", <<>>)}
                  \cup {Get(all_results[k], "weak_scaling", <<>>)[i] :
                          i \in DOMAIN Get(all_results[k], "weak_scaling", <<>>)} :
                k \in DOMAIN all_results}

\* the sweep moves on to the next run of the grid
SweepAdvances ==
  /\ stack' = stack
  /\ run' = (IF run < num_runs THEN run + 1 ELSE 1)
  /\ ci' = (IF run < num_runs THEN ci ELSE ci + 1)

\* a step of a sweep that invoked the client
SweepInvokes == calls' # calls /\ Top = "sw_run"

\* C1: every run record has total_messages = num_clients * messages_per_client,
\* on the success path as on the timeout and exception paths, whatever the
\* client printed.
C1_TotalMessagesIsProduct ==
  \A r \in RunRecords :
    r.total_messages = Some(r.num_clients * r.messages_per_client)

\* C2: when an exception raised during the warmup or a sweep of a variant
\* whose server is live propagates out of run_variant_benchmarks, stop_server
\* has been invoked exactly once for that server.
C2_StopOnceBeforePropagation ==
  (Unwinding /\ exc = "Exception" /\ Top = "m_call" /\ process # 0)
    => procs[process].stops = 1

C2_Witness ==
  /\ Unwinding
  /\ exc = "Exception"
  /\ Top = "m_call"
  /\ process # 0
  /\ startRet
  /\ procs[process].stops = 1

\* C3: after an interrupt, whenever the orchestrator has exited no server
\* process it launched is still alive.
C3_NoServerAliveAfterInterrupt ==
  (halted # "no" /\ signalsLeft < MaxSignals) => Alive = {}

\* C4: at most one server process launched by the orchestrator is alive at
\* any time.
C4_AtMostOneServerAlive == Cardinality(Alive) <= 1

\* C5: a client invocation is made only against the current variant's server
\* process, after readiness polling succeeded for it and before any stop.
C5_ClientOnlyAgainstReadyServer ==
  [][calls' # calls =>
       /\ server_process # 0
       /\ procs[server_process].variant = variant
       /\ procs[server_process].ready
       /\ procs[server_process].alive
       /\ procs[server_process].stops = 0]_vars

C5_Witness ==
  /\ calls > 0
  /\ server_process # 0
  /\ procs[server_process].ready
  /\ Top = "sw_run"

\* C6: a variant whose readiness polling timed out gets no client invocation,
\* and when the suite ends every selected variant has been attempted.
C6_TimeoutAbandonsOnlyThatVariant ==
  /\ []((halted # "no" /\ timedOut # {})
          => attempted = DOMAIN variants_to_run)
  /\ [][calls' # calls => vi \notin timedOut]_vars

C6_Witness ==
  /\ 1 \in timedOut
  /\ 2 \in attempted
  /\ vi = 2
  /\ calls > 0

\* C7: a failing variant (build step, failed start, exception mid-sweep) is
\* caught at the loop of main: the loop goes on with the next variant, the
\* failure is an error record or no record, and all_results only ever grows.
C7_VariantFailureIsContained ==
  [][/\ IsPrefix(all_results, all_results')
     /\ (Unwinding /\ exc = "Exception" /\ Top = "m_call")
          => /\ halted' = "no"
             /\ exc' = "none"
             /\ stack' = <<"m_loop">>
             /\ vi' = vi + 1
             /\ all_results' = all_results
     /\ (At("m_call") /\ "error" \in DOMAIN retval /\ Len(stack') = Len(stack))
          => /\ all_results' = Append(all_results, retval)
             /\ stack' = <<"m_loop">>
             /\ vi' = vi + 1
     /\ (At("m_loop") /\ vi <= Len(variants_to_run) /\ Len(stack') > Len(stack)
           /\ Last(stack') # "cl_enter")
          => Last(stack') = "rvb_begin"]_vars

C7_Witness ==
  /\ At("m_loop")
  /\ vi = 3
  /\ attempted = {1, 2}
  /\ timedOut = {}
  /\ Len(all_results) = 1
  /\ "strong_scaling" \in DOMAIN all_results[1]
  /\ all_results[1].variant = variants_to_run[1]

\* C8: a client invocation that times out or raises yields a failed record
\* carrying the error, and the sweep goes on with the next run.
C8_FailedRunDoesNotAbortSweep ==
  [][(calls' # calls /\ client'.kind \in {"timeout", "error"})
       => /\ exc' = "none"
          /\ halted' = "no"
          /\ Last(stack') = "sw_run"
          /\ Top = "sw_run"
               => /\ results' = Append(results, Last(results'))
                  /\ Last(results').success = FALSE
                  /\ Last(results').error =
                       (IF client'.kind = "timeout" THEN "timeout" ELSE "exception text")
                  /\ SweepAdvances]_vars

C8_Witness ==
  /\ At("sw_run")
  /\ Len(results) >= 2
  /\ "error" \in DOMAIN results[1]

\* C9: a client run that exits with status 0 yields a record with success
\* true whatever lines its output lacks, the record is kept, and the sweep
\* goes on with the next run.
C9_IncompleteOutputIsNotAnError ==
  [][(SweepInvokes /\ client'.kind = "exit")
       => /\ exc' = "none"
          /\ results' = Append(results, Last(results'))
          /\ Last(results').success = (client'.rc = 0)
          /\ SweepAdvances]_vars

\* C10: stop_server force-kills only a process that outlived the grace
\* period, and when it returns the process it was asked to stop is not alive.
C10_StoppedWhenStopReturns ==
  /\ (At("st_kill") => procs[server_process].alive)
  /\ (At("st_ret") /\ stopTarget # 0) => ~procs[stopTarget].alive

\* the variant's frame of run_variant_benchmarks is on the stack
InVariant == Len(stack) >= 2 /\ stack[1] = "m_call"

\* position of the variant in its lifecycle: 0 entry, 1 port check, 2 build,
\* 3 launch, 4 await ready, 5 warmup, 6 strong sweep, 7 cool-down and weak
\* sweep, 8 stop (or the variant is abandoned)
Stage ==
  CASE stack[2] = "rvb_begin" -> 0
    [] stack[2] = "rvb_start" /\ Len(stack) = 2 -> (IF startRet THEN 4 ELSE 8)
    [] stack[2] = "rvb_start" /\ Len(stack) > 2 ->
         (CASE stack[3] = "s_check" -> 1
            [] stack[3] = "s_build" -> 2
            [] stack[3] \in {"s_popen", "s_assign"} -> 3
            [] stack[3] = "s_wait" -> 4
            [] OTHER -> 8)
    [] stack[2] = "rvb_warmup" -> 5
    [] stack[2] = "rvb_strong" -> 6
    [] stack[2] = "rvb_weak" -> 7
    [] OTHER -> 8

\* C11: per variant the lifecycle goes port check, build, launch, await
\* ready, warmup, strong sweep, cool-down, weak sweep, stop, never backwards
\* and never skipping a stage except to stop or abandon the variant: the
\* process is launched after the build, the warmup is the one invocation
\* before the strong sweep, strong runs are made before the weak sweep starts,
\* the weak sweep starts only when the strong grid is exhausted, and the
\* stop of the finally block comes after the last run.
C11_LifecycleOrder ==
  [][/\ (InVariant /\ InVariant' /\ exc = "none")
          => \/ Stage' = Stage
             \/ Stage' = Stage + 1
             \/ Stage' = 8
             \/ exc' # "none"
     /\ (InVariant /\ InVariant') => Stage' >= Stage
     /\ (elapsed' > elapsed /\ process = 0) => Stage = 2
     /\ Len(procs') # Len(procs) => Stage = 3 /\ Stage' = 3
     /\ (attempt' # attempt \/ waitRet' # waitRet) => Stage \in {3, 4}
     /\ calls' # calls
          => \/ Stage = 5 /\ client'.out.tmsgs = Some(WarmupMessages)
             \/ Stage = 6 /\ sweep = "strong" /\ Top = "sw_run"
             \/ Stage = 7 /\ sweep = "weak" /\ Top = "sw_run"
     /\ (InVariant /\ InVariant' /\ Stage = 5 /\ Stage' = 6) => calls' = calls + 1
     /\ (InVariant /\ InVariant' /\ Stage = 6 /\ Stage' = 7)
          => ci > Len(client_counts) /\ strong_results' = results
     /\ (\E p \in DOMAIN procs : procs'[p].stops # procs[p].stops
                                    \/ procs'[p].alive # procs[p].alive)
          => InVariant' /\ Stage' = 8
    ]_vars

C11_Witness ==
  /\ InVariant
  /\ stack[2] = "rvb_fin_ret"
  /\ Top = "st_ret"
  /\ variant = "jvm-gramine"
  /\ elapsed = BuildTime + SettleDelay
  /\ Len(strong_results) = Len(client_counts) * num_runs
  /\ Len(results) = Len(client_counts) * num_runs
  /\ strong_results[1].scaling_type = "strong"
  /\ results[1].scaling_type = "weak"
  /\ procs[process].stops = 1

\* C12: wait_for_server polls at most max_attempts times: it returns False
\* only after exactly max_attempts failed polls, each step of the loop either
\* returns or moves to the next attempt, and the first successful poll
\* returns True with no further poll.
C12_ReadinessWaitTerminates ==
  /\ [](At("w_poll") => attempt \in 1..(max_attempts(variant) + 1))
  /\ [][At("w_poll")
          => \/ /\ stack' = Pop
                /\ ~waitRet'
                /\ attempt' = attempt
                /\ attempt = max_attempts(variant) + 1
                /\ ~procs[server_process].ready
             \/ /\ stack' = Pop
                /\ waitRet'
                /\ attempt' = attempt
                /\ attempt <= max_attempts(variant)
                /\ procs'[server_process].ready
             \/ /\ stack' = stack
                /\ attempt' = attempt + 1
                /\ attempt <= max_attempts(variant)
                /\ UNCHANGED <<waitRet, procs>>]_vars

C12_Witness ==
  /\ At("s_wait")
  /\ ~waitRet
  /\ attempt = max_attempts(variant) + 1
  /\ max_attempts(variant) >= 1
  /\ elapsed >= max_attempts(variant) * PollInterval
  /\ ~procs[server_process].ready

\* C13: when the port check of a start operation finds a listener (the one
\* deviation the environment can make at that step), the operation returns
\* False at once, whatever the variant: no build step has run, no process is
\* launched, no process is signalled and config.server_process is untouched;
\* the variant then yields the server_start_failed record.
C13_AlreadyRunningRejected ==
  /\ [][(At("s_check") /\ faults' # faults)
          => /\ stack' = Pop
             /\ ~startRet'
             /\ UNCHANGED <<procs, server_process, current_variant, elapsed,
                            process, calls>>]_vars
  /\ []((At("rvb_start") /\ ~startRet /\ process = 0 /\ elapsed = 0)
          => /\ server_process = 0
             /\ \A p \in DOMAIN procs : procs[p].variant # variant)
  /\ [][(At("rvb_start") /\ ~startRet)
          => /\ retval' = [variant |-> variant, error |-> "server_start_failed"]
             /\ stack' = Pop]_vars

C13_Witness ==
  /\ At("m_call")
  /\ retval = [variant |-> "jvm-gramine", error |-> "server_start_failed"]
  /\ variant = "jvm-gramine"
  /\ ~startRet
  /\ process = 0
  /\ elapsed = 0
  /\ faults = 1
  /\ \A p \in DOMAIN procs : procs[p].variant # "jvm-gramine"

\* the records a complete sweep holds: for each client count of the grid in
\* ascending order, runs 1..num_runs
FullSweep(list) ==
  /\ Len(list) = Len(client_counts) * num_runs
  /\ \A i \in DOMAIN list :
       /\ list[i].num_clients = client_counts[((i - 1) \div num_runs) + 1]
       /\ list[i].run_number = ((i - 1) % num_runs) + 1

\* C14: every sweep that is started ends by returning a list with exactly
\* num_runs records for each client count, in ascending client-count order
\* and with run numbers 1..num_runs, whatever the outcome of its runs.
C14_SweepRunsWholeGrid ==
  [][(Top = "sw_run" /\ Len(stack') < Len(stack))
       => exc = "none" /\ FullSweep(results)]_vars

\* the run records of strong sweeps
StrongRecords == {r \in RunRecords : r.scaling_type = "strong"}

\* C15: every strong-scaling run is made with messages_per_client =
\* floor(1000 / num_clients), that is 1000, 500, 250, 125, 62 for 1, 2, 4,
\* 8, 16 clients; the work requested, num_clients * messages_per_client,
\* never exceeds the strong total and is 992 for 16 clients.
C15_StrongSplitIsFloor ==
  \A r \in StrongRecords :
    /\ r.num_clients \in {1, 2, 4, 8, 16}
    /\ r.messages_per_client =
         (CASE r.num_clients = 1 -> 1000
            [] r.num_clients = 2 -> 500
            [] r.num_clients = 4 -> 250
            [] r.num_clients = 8 -> 125
            [] OTHER -> 62)
    /\ r.messages_per_client * r.num_clients <= StrongTotal
    /\ (r.messages_per_client + 1) * r.num_clients > StrongTotal
    /\ "error" \in DOMAIN r
         => r.total_messages = Some(r.num_clients * r.messages_per_client)

C15_Witness ==
  /\ Len(strong_results) = Len(client_counts) * num_runs
  /\ Last(strong_results).num_clients = 16
  /\ Last(strong_results).messages_per_client = 62
  /\ "error" \in DOMAIN Last(strong_results)
  /\ Last(strong_results).total_messages = Some(992)

\* C16: the warmup is one client invocation made before the strong sweep
\* starts from an empty list; no run record has the warmup's run number 0 or
\* its message count, and past the warmup the invocations made are the
\* warmup plus one per record of the two lists.
C16_OneUnrecordedWarmup ==
  /\ [](\A r \in RunRecords :
          r.run_number >= 1 /\ r.messages_per_client # WarmupMessages)
  /\ [](calls = (IF stack[2] = "rvb_warmup" THEN 0 ELSE 1)
                  + Len(strong_results) + Len(results))
  /\ [][Top = "rvb_warmup"
          => /\ calls' = calls + 1
             /\ stack' = <<"m_call", "rvb_strong", "sw_run">>
             /\ results' = <<>>
             /\ strong_results' = <<>>]_vars

C16_Witness ==
  /\ stack[2] = "rvb_fin_ret"
  /\ calls = 1 + 2 * Len(client_counts) * num_runs
  /\ Len(strong_results) = Len(client_counts) * num_runs
  /\ Len(results) = Len(client_counts) * num_runs
  /\ strong_results[1].run_number = 1

\* the records of a list that have the given client count
Group(rs, nc) == SelectSeq(rs, LAMBDA r : Get(r, "num_clients", 0) = nc)

\* the values of a metric over the records in which it is not null
NonNull(runs, key) ==
  MapValue(SelectSeq(runs, LAMBDA r : Get(r, key, None) # None), key)

\* the statistics of a metric are those of exactly the given samples
StatsOver(g, samples, mean_key, stdev_key) ==
  IF samples = <<>>
  THEN mean_key \notin DOMAIN g /\ stdev_key \notin DOMAIN g
  ELSE /\ mean_key \in DOMAIN g
       /\ stdev_key \in DOMAIN g
       /\ g[mean_key] = Mean(samples)
       /\ g[stdev_key] = (IF Len(samples) > 1 THEN Stdev(samples) ELSE ZeroStdev)

\* the aggregated points a finished call of aggregate_runs returned
Aggregated ==
  IF analyzer.fn = "aggregate_runs" /\ analyzer.ret # None /\ analyzer.results # <<>>
  THEN analyzer.ret[1].aggregated
  ELSE <<>>

\* C17: each aggregated point reports as num_runs the number of records of
\* its group, and its throughput (latency) mean and stdev are those of exactly
\* the records of the group whose throughput (average latency) is not null.
C17_StatsOverNonNullSamples ==
  \A i \in DOMAIN Aggregated :
    LET g == Aggregated[i]
        runs == Group(analyzer.results, g.num_clients)
    IN /\ g.num_runs = Len(runs)
       /\ StatsOver(g, NonNull(runs, "throughput"), "throughput_mean", "throughput_stdev")
       /\ StatsOver(g, NonNull(runs, "avg_latency"), "latency_mean", "latency_stdev")

\* C18: every aggregated point with num_runs = 1 carries throughput_stdev and
\* latency_stdev, and both are 0.
C18_SingleRunStdevIsZero ==
  \A i \in DOMAIN Aggregated :
    Aggregated[i].num_runs = 1
      => /\ "throughput_stdev" \in DOMAIN Aggregated[i]
         /\ "latency_stdev" \in DOMAIN Aggregated[i]
         /\ Aggregated[i].throughput_stdev = ZeroStdev
         /\ Aggregated[i].latency_stdev = ZeroStdev

C20_EfficiencyIsSpeedupPerClient ==
  (analyzer.fn = "calculate_speedup" /\ analyzer.at = "efficiency"
     /\ analyzer.num_clients \in {1, 2, 4, 8, 16})
    => /\ (analyzer.efficiency = None) <=> (analyzer.speedup = None)
       /\ analyzer.efficiency # None
            => /\ analyzer.efficiency[1].num * analyzer.num_clients * analyzer.speedup[1].den
                    = analyzer.speedup[1].num * analyzer.efficiency[1].den
               /\ analyzer.efficiency[1].den > 0
       /\ (analyzer.speedup = Some(Frac(4, 1)) /\ analyzer.num_clients = 4)
            => analyzer.efficiency = Some(Frac(1, 1))

C20_Witness ==
  /\ analyzer.fn = "calculate_speedup"
  /\ analyzer.at = "efficiency"
  /\ analyzer.baseline_value = Some(Frac(100, 1))
  /\ analyzer.variant_value = Some(Frac(400, 1))
  /\ analyzer.metric_type = "throughput"
  /\ analyzer.num_clients = 4
  /\ analyzer.speedup = Some(Frac(4, 1))
  /\ analyzer.efficiency = Some(Frac(1, 1))

\* an artifact of the running or finished call of generate_scaling_report:
\* its rows once it is written, no rows before
Written(file) ==
  IF analyzer.fn = "generate_scaling_report" /\ analyzer[file] # None
  THEN analyzer[file][1]
  ELSE <<>>

\* the lines of a scaling section of the text report, each with its variant
SectionLines(law) ==
  IF analyzer.fn = "generate_scaling_report" /\ analyzer.report # None
  THEN Concat([k \in DOMAIN analyzer.report[1][law] |->
                 [i \in DOMAIN analyzer.report[1][law][k].lines |->
                    Merge(analyzer.report[1][law][k].lines[i],
                          [variant |-> analyzer.report[1][law][k].variant])]])
  ELSE <<>>

\* the run records of the given law that jvm-local contributed to the
\* reported results for nc clients (none when it is absent or failed)
BaselineRuns(law, nc) ==
  LET ar == analyzer.all_results
      key == IF law = "strong" THEN "strong_scaling" ELSE "weak_scaling"
  IN IF "jvm-local" \in NamedVariants(ar)
     THEN Group(Get(ar[LastOf(ar, "jvm-local")], key, <<>>), nc)
     ELSE <<>>

\* the baseline has no aggregated value of the metric at (law, nc)
BaselineLacks(law, nc, key) == NonNull(BaselineRuns(law, nc), key) = <<>>

CsvOf(law) == Written(IF law = "strong" THEN "strong_csv" ELSE "weak_csv")

\* C21: where the baseline has no aggregated throughput (latency) at a scaling
\* law and client count, the speedup and efficiency cells of that metric are
\* empty in every row of that law's CSV with that client count, and the line
\* of the text report shows no speedup: never 1, never 0.
C21_NoBaselineNoSpeedup ==
  \A law \in {"strong", "weak"} :
    /\ \A i \in DOMAIN CsvOf(law) :
         LET row == CsvOf(law)[i]
         IN /\ BaselineLacks(law, row.num_clients, "throughput") =>
                 /\ row.speedup_throughput = EmptyCell
                 /\ row.efficiency_throughput = EmptyCell
            /\ BaselineLacks(law, row.num_clients, "avg_latency") =>
                 /\ row.speedup_latency = EmptyCell
                 /\ row.efficiency_latency = EmptyCell
    /\ \A i \in DOMAIN SectionLines(law) :
         BaselineLacks(law, SectionLines(law)[i].num_clients, "throughput") =>
           SectionLines(law)[i].speedup = None

\* a finished report in which jvm-local has measurements, and jvm-gramine has
\* a row with a throughput at a client count where jvm-local has none
C21_Witness ==
  /\ ReportAt("done")
  /\ ~BaselineLacks("strong", 1, "avg_latency")
  /\ \E i \in DOMAIN CsvOf("strong") :
       /\ CsvOf("strong")[i].variant = "jvm-gramine"
       /\ CsvOf("strong")[i].throughput_mean # EmptyCell
       /\ BaselineLacks("strong", CsvOf("strong")[i].num_clients, "throughput")

\* the variants whose reported result is an error record
FailedVariants ==
  IF analyzer.fn = "generate_scaling_report"
  THEN {v \in NamedVariants(analyzer.all_results) :
          "error" \in DOMAIN analyzer.all_results[LastOf(analyzer.all_results, v)]}
  ELSE {}

\* C22: a variant whose result is an error record has no row in
\* startup_times.csv, strong_scaling.csv or weak_scaling.csv, so no startup
\* time 0 is written for it.
C22_FailedVariantHasNoRow ==
  \A file \in {"startup_csv", "strong_csv", "weak_csv"} :
    \A i \in DOMAIN Written(file) : Written(file)[i].variant \notin FailedVariants

\* C23: generate_scaling_report never raises: whatever the reported results
\* are (failed variants, failed runs, null metrics, null total_messages), it
\* goes on to write every artifact.
C23_ReportNeverRaises == ~ReportAt("raised")

\* the run records of the given law that variant v contributed to the
\* reported results for nc clients
VariantRuns(v, law, nc) ==
  LET ar == analyzer.all_results
      key == IF law = "strong" THEN "strong_scaling" ELSE "weak_scaling"
  IN Group(Get(ar[LastOf(ar, v)], key, <<>>), nc)

\* C24: in strong_scaling.csv and weak_scaling.csv a value that is missing is
\* an empty cell, never a zero: the mean and stdev of a metric no run of the
\* group measured, the speedup and efficiency derived from it, and a null
\* total_messages.
C24_MissingIsEmptyCell ==
  \A law \in {"strong", "weak"} :
    \A i \in DOMAIN CsvOf(law) :
      LET row == CsvOf(law)[i]
          runs == VariantRuns(row.variant, law, row.num_clients)
      IN /\ NonNull(runs, "throughput") = <<>> =>
              /\ row.throughput_mean = EmptyCell
              /\ row.throughput_stdev = EmptyCell
              /\ row.speedup_throughput = EmptyCell
              /\ row.efficiency_throughput = EmptyCell
         /\ NonNull(runs, "avg_latency") = <<>> =>
              /\ row.latency_mean = EmptyCell
              /\ row.latency_stdev = EmptyCell
              /\ row.speedup_latency = EmptyCell
              /\ row.efficiency_latency = EmptyCell
         /\ (law = "weak" /\ runs[1].total_messages = None) =>
              row.total_messages = EmptyCell

\* both CSVs are written; a strong row has a latency but no throughput, a
\* strong row has no metric at all, and a weak row has a null total_messages
C24_Witness ==
  /\ Written("weak_csv") # <<>>
  /\ \E i \in DOMAIN CsvOf("strong") :
       /\ CsvOf("strong")[i].throughput_mean = EmptyCell
       /\ CsvOf("strong")[i].latency_mean # EmptyCell
  /\ \E i \in DOMAIN CsvOf("strong") :
       /\ CsvOf("strong")[i].throughput_mean = EmptyCell
       /\ CsvOf("strong")[i].latency_mean = EmptyCell
  /\ \E i \in DOMAIN CsvOf("weak") : CsvOf("weak")[i].total_messages = EmptyCell

\* the run records inside the results main has collected for the report
CollectedRecords ==
  UNION {{Get(all_results[k], "strong_scaling", <<>>)[i] :
            i \in DOMAIN Get(all_results[k], "strong_scaling", <<>>)}
           \cup {Get(all_results[k], "weak_scaling", <<>>)[i] :
                   i \in DOMAIN Get(all_results[k], "weak_scaling", <<>>)} :
         k \in DOMAIN all_results}

\* C25: when main hands all_results to the report, every record a sweep
\* appended to its list is in it, also the records of a variant whose sweep
\* failed later on.
C25_RawResultsComplete ==
  halted = "done" =>
    /\ \A i \in DOMAIN results : results[i] \in CollectedRecords
    /\ \A i \in DOMAIN strong_results : strong_results[i] \in CollectedRecords

\* all_results in the opposite run order
Reversed(ar) == [i \in DOMAIN ar |-> ar[Len(ar) + 1 - i]]

\* the speedup cell expected from the samples of the variant's group and of
\* the baseline's group of the same law and client count
ExpectedSpeedup(row, law, key) ==
  LET own == NonNull(VariantRuns(row.variant, law, row.num_clients), key)
      base == NonNull(BaselineRuns(law, row.num_clients), key)
  IN IF own = <<>> \/ base = <<>> THEN EmptyCell
     ELSE IF key = "throughput" THEN <<Format(Div(Mean(own), Mean(base)), 4)>>
     ELSE <<Format(Div(Mean(base), Mean(own)), 4)>>

\* C26: the speedups written for a variant are taken against the baseline's
\* aggregated point of the same scaling law and client count, wherever
\* jvm-local stood in the run order: each CSV is the one the opposite run
\* order would have given.
C26_SpeedupIgnoresRunOrder ==
  \A law \in {"strong", "weak"} :
    /\ CsvOf(law) # <<>> => CsvOf(law) = scaling_csv(Reversed(analyzer.all_results), law)
    /\ \A i \in DOMAIN CsvOf(law) :
         /\ CsvOf(law)[i].speedup_throughput
              = ExpectedSpeedup(CsvOf(law)[i], law, "throughput")
         /\ CsvOf(law)[i].speedup_latency
              = ExpectedSpeedup(CsvOf(law)[i], law, "avg_latency")

\* jvm-gramine ran before jvm-local, and its strong row has a speedup
\* against jvm-local that is not 1
C26_Witness ==
  /\ ReportAt("done")
  /\ Len(analyzer.all_results) = 2
  /\ analyzer.all_results[2].variant = "jvm-local"
  /\ \E i \in DOMAIN CsvOf("strong") :
       /\ CsvOf("strong")[i].variant = "jvm-gramine"
       /\ CsvOf("strong")[i].speedup_throughput \notin {EmptyCell, <<Digits(10000, 4)>>}
       /\ CsvOf("strong")[i].speedup_latency \notin {EmptyCell, <<Digits(10000, 4)>>}

\* the metrics a finished call of extract_from_output returned for output out
Extracted(out) ==
  /\ analyzer.fn = "extract_from_output"
  /\ analyzer.ret # None
  /\ analyzer.output = out

\* C27: a throughput the output reports is returned as it is; when the output
\* reports none but has a total time (above 0) and a total message count, the
\* returned throughput t is the derived one: t * total_time = total_messages
\* * 1000.
C27_DerivedThroughput ==
  \A out \in ExtractedOutputs :
    Extracted(out) =>
      LET throughput == analyzer.ret[1].throughput
      IN /\ out.tput # None => throughput = out.tput
         /\ (out.tput = None /\ out.loose # None) => throughput = out.loose
         /\ (/\ out.tput = None
             /\ out.loose = None
             /\ out.ttime # None
             /\ out.tmsgs # None
             /\ out.ttime[1] > 0) =>
              /\ throughput # None
              /\ throughput[1] * out.ttime[1] = out.tmsgs[1] * 1000

\* the command line names something that is no variant, or selects nothing
NoSelection == args # None /\ ~args[1].all /\ args[1].variants = None
UnknownNamed ==
  /\ args # None
  /\ args[1].variants # None
  /\ \E i \in DOMAIN args[1].variants[1] : args[1].variants[1][i] \notin Variants

\* run_variant_benchmarks was called on its own with a name that is no variant
UnknownCalled == args = None /\ variants_to_run # <<>> /\ variants_to_run[1] \notin Variants

\* C28: with a command line that names an unknown variant or selects none,
\* main never gets past parsing: it ends with exit status 2 or 1, and no
\* build step, server process or call of run_variant_benchmarks happens;
\* run_variant_benchmarks called with an unknown name returns the
\* unknown_variant error without a build step or a process.
C28_UnknownVariantRejected ==
  /\ (NoSelection \/ UnknownNamed) =>
       /\ stack \in {<<"m_parse">>, <<>>}
       /\ stack = <<>> => halted = (IF UnknownNamed THEN "exit2" ELSE "exit1")
       /\ procs = <<>> /\ attempted = {} /\ elapsed = 0
  /\ UnknownCalled =>
       /\ stack \in {<<"rvb_begin">>, <<>>}
       /\ stack = <<>> => retval = [variant |-> variants_to_run[1],
                                     error |-> "unknown_variant"]
       /\ procs = <<>> /\ elapsed = 0

\* the command line "--variants jvm-local jvm-remote" has ended the program
C28_Witness ==
  /\ args = CommandLine(FALSE, Some(<<"jvm-local", "jvm-remote">>))
  /\ halted = "exit2"
  /\ procs = <<>>

\* C29: elevation that cannot be used without a password is fatal at once:
\* the orchestrator never waits at a credential prompt.
C29_NoCredentialPrompt == ~At("m_sudo_prompt")

\* the time wait_for_server measured at the poll that found the server ready:
\* one poll interval per failed poll before it
ReadinessWait == (attempt - 1) * PollInterval

\* C30: the startup_time of a variant's result is the time its readiness wait
\* measured from the first poll to the successful one, without the build step
\* before it and the settle delay after it.
C30_StartupTimeIsReadinessWait ==
  (At("rvb_warmup") /\ vi \in attempted) => retval.startup_time = Some(ReadinessWait)

\* the client count and message count of the invocation about to be made:
\* the warmup uses one client, a sweep the current entry of client_counts
InvokedClients == IF Top = "rvb_warmup" THEN 1 ELSE client_counts[ci]
InvokedMessages ==
  IF Top = "rvb_warmup" THEN WarmupMessages
  ELSE IF sweep = "strong" THEN StrongTotal \div client_counts[ci]
  ELSE WeakPerClient

\* C31: every client invocation passes host, port of the variant, message
\* count and the truststore with its password; it passes the load-test flag
\* and the client count exactly when there is more than one client.
C31_LoadTestFlagIffSeveralClients ==
  [][calls' # calls =>
       /\ cmd' # None
       /\ {"host", "port", "messages", "truststore", "truststore_password"}
            \subseteq DOMAIN cmd'[1]
       /\ cmd'[1].host = "localhost"
       /\ cmd'[1].port = Port(variant)
       /\ cmd'[1].messages = InvokedMessages
       /\ ("load_test" \in DOMAIN cmd'[1]) <=> (InvokedClients > 1)
       /\ ("clients" \in DOMAIN cmd'[1]) <=> (InvokedClients > 1)
       /\ InvokedClients > 1 => cmd'[1].clients = InvokedClients]_vars

\* a sweep has invoked the client for one client and then for several
C31_Witness ==
  /\ cmd # None
  /\ "load_test" \in DOMAIN cmd[1]
  /\ cmd[1].clients = 4
  /\ \E i \in DOMAIN results : results[i].num_clients = 1

\* C32: when a start operation has returned False to run_variant_benchmarks,
\* config.server_process is None and the process the call launched, if it
\* launched one, is no longer alive.
C32_FailedStartLeavesNoProcess ==
  (At("rvb_start") /\ ~startRet) =>
    /\ server_process = 0
    /\ process # 0 => ~procs[process].alive

\* the values of a metric over the records of client runs that exited, with
\* whatever status, and whose output gave a value that is not zero
Yielded(runs, key) ==
  MapValue(SelectSeq(runs, LAMBDA r : /\ "output" \in DOMAIN r
                                      /\ Get(r, key, None) # None
                                      /\ Get(r, key, None)[1] # 0), key)

\* the records of a timeout or of an exception of the client invocation
Errored(runs) == SelectSeq(runs, LAMBDA r : "error" \in DOMAIN r)

C34_ReportSpeedupMatchesCsv ==
  ReportAt("done") =>
    \A law \in {"strong", "weak"} :
      \A i \in DOMAIN SectionLines(law), j \in DOMAIN CsvOf(law) :
        (/\ SectionLines(law)[i].variant = CsvOf(law)[j].variant
         /\ SectionLines(law)[i].num_clients = CsvOf(law)[j].num_clients)
          => (SectionLines(law)[i].speedup # None
                <=> CsvOf(law)[j].speedup_throughput # EmptyCell)

\* the cell of the value 1 / n with four decimals
OneOver(n) == <<Format(Frac(1, n), 4)>>

\* C35: in both CSVs every row of jvm-local that has a throughput mean has
\* speedup_throughput 1 and efficiency_throughput 1 / num_clients, and every
\* row of jvm-local that has a latency mean has speedup_latency 1 and
\* efficiency_latency 1 / num_clients.
C35_BaselineSpeedupIsOne ==
  \A law \in {"strong", "weak"} :
    \A i \in DOMAIN CsvOf(law) :
      LET row == CsvOf(law)[i]
      IN row.variant = "jvm-local" =>
           /\ row.throughput_mean # EmptyCell =>
                /\ row.speedup_throughput = OneOver(1)
                /\ row.efficiency_throughput = OneOver(row.num_clients)
           /\ row.latency_mean # EmptyCell =>
                /\ row.speedup_latency = OneOver(1)
                /\ row.efficiency_latency = OneOver(row.num_clients)

\* the strong CSV has a row of jvm-local at 2 clients with both means, and
\* a row of jvm-local with a latency mean and no throughput mean
C35_Witness ==
  /\ ReportAt("done")
  /\ \E i \in DOMAIN CsvOf("strong") :
       /\ CsvOf("strong")[i].variant = "jvm-local"
       /\ CsvOf("strong")[i].num_clients = 2
       /\ CsvOf("strong")[i].throughput_mean # EmptyCell
       /\ CsvOf("strong")[i].efficiency_throughput = <<Digits(5000, 4)>>
       /\ CsvOf("strong")[i].efficiency_latency = <<Digits(5000, 4)>>
  /\ \E i \in DOMAIN CsvOf("strong") :
       /\ CsvOf("strong")[i].variant = "jvm-local"
       /\ CsvOf("strong")[i].throughput_mean = EmptyCell
       /\ CsvOf("strong")[i].speedup_throughput = EmptyCell
       /\ CsvOf("strong")[i].speedup_latency = <<Digits(10000, 4)>>

\* an interrupt has been delivered
Interrupted == signalsLeft < MaxSignals

C37_ReportIffSomeRecord ==
  halted # "no" =>
    /\ halted \in {"done", "exit1"}
    /\ halted = "done" <=> all_results # <<>>
    /\ halted = "exit1" <=> all_results = <<>>

\* the report was generated although the only record is an error record
C37_Witness ==
  /\ halted = "done"
  /\ Len(all_results) = 1
  /\ "error" \in DOMAIN all_results[1]
  /\ all_results[1].error = "server_start_failed"
  /\ attempted = {1}

\* no frame of a start operation or of stop_server is on the stack
OutsideStartAndStop ==
  \A i \in DOMAIN stack : stack[i] \notin StartLabels \cup StopLabels

\* this step is the return of stop_server to its caller
StopServerReturns == Running /\ Top \in StopLabels /\ stack' = Pop /\ exc' = "none"

====
